---- MODULE Spec2Model ----
(***************************************************************************)
(* A model of Spirit's online-copy engine: the chunker and its low         *)
(* watermark, the copier workers, the replication subscription (delta map  *)
(* and delta queue), the flush, the checkpointer, resume from checkpoint   *)
(* and the rename-under-lock cutover.                                      *)
(*                                                                         *)
(* Keys are single-column integer primary keys 1..NumKeys.  A row is <<v>>, *)
(* v the version its last write gave it, and <<>> where no row exists.     *)
(* The binary log is the sequence of row events committed on S after the   *)
(* replication client's start position.                                    *)
(***************************************************************************)
EXTENDS Integers, Sequences, FiniteSets, TLC

\* ---------------------------------------------------------------- bounds
NumKeys == 2
Threads == 2
MaxEvents == 2
MaxCheckpoints == 2
\* Client.targetBatchSize, scaled down so that a flush splits into batches.
TargetBatchSize == 2

\* DBConfig.MaxRetries as CutOver.Run uses it, scaled down from the default 5.
MaxRetries == 2
\* The key space the chunker-only specifications cover.
ChunkerKeys == 4
\* Row events of the specification of the delta stores.
DeltaEvents == 4
\* Table-definition changes notified to one run.
MaxNotifications == 1
MaxFeedbacks == 11
\* Keys one flush finds in the delta store, and the client's concurrency.
MaxFlushKeys == 3
Concurrency == 2
\* Flushes of one subscription, and row events arriving meanwhile.
MaxFlushes == 2
\* Rows one statement of a transaction reports as affected.
MaxRowsAffected == 1
\* Calls of MetadataLock.Close, and refreshes of the lock before it.
MaxCloses == 2
MaxRefreshes == 3
MaxChanges == 1
\* Columns of a primary key put through HashKey and UnhashKey.
MaxKeyColumns == 2
\* Checksum runs over the same pair of tables.
MaxChecksumRuns == 2

Keys == 1..NumKeys
\* TableInfo's minimum key value.
MinKey == 1
Workers == 1..Threads
NoRow == <<>>
\* Chunker.watermark before any chunk has completed (nil).
NoWatermark == MinKey - 1

VARIABLES
    \* --- tables
    S,                      \* source table: key -> row
    shadow,                 \* _S_new: key -> row
    \* --- server binary log
    binlog,                 \* committed row events not yet received by the client
    serverPos,              \* number of row events committed since the start position
    \* --- repl.Client / subscription
    bufferedPos,            \* Client.bufferedPos
    flushedPos,             \* Client.flushedPos
    useExperimentalBufferedMap, \* the subscription is a bufferedMap
    changes,                \* bufferedMap.changes: HashKey -> logicalRow
    disableDeltaMap,        \* subscription.disableDeltaMap (queue mode)
    deltaMap,               \* subscription.deltaMap: HashKey -> isDelete
    deltaQueue,             \* subscription.deltaQueue: Seq(queuedChange)
    enableKeyAboveWatermark,\* subscription.enableKeyAboveWatermark
    \* --- chunker
    maxValue,               \* TableInfo's maximum key value, read when the chunker opens
    chunkPtr,               \* lower bound of the next chunk to hand out
    watermark,              \* upper bound of the last contiguously completed chunk
    lowerBoundWatermarkMap, \* completed chunks waiting for a predecessor: lower -> upper
    chunkSize,              \* rows of key space per chunk (Chunk.ChunkSize)
    chunkTimingInfo,        \* durations fed back since the last recalculation
    \* --- copier workers
    workers,                \* worker -> [st, lower, upper]
    \* --- Runner
    currentState,           \* Runner.currentState
    \* --- cutover (CutOver.Run / algorithmRenameUnderLock)
    cut,                    \* [pc, attempt, lock, flushOK, renamed, err, failed]
    \* --- checkpointer (Runner.dumpCheckpoint) and the checkpoint table
    ckpt,                   \* [pc, binlog, lowWatermark]: dumpCheckpoint's locals
    checkpointTable,        \* Seq of rows [low_watermark, binlog_pos, ...]
    \* --- dbconn.RetryableTransaction: its arguments, locals and result
    txn,
    \* --- Runner.setup of a starting run: its position, inputs and result
    runner,
    \* --- one flush's execution: its statements, those in flight, those done
    exec,
    \* --- checksum.Checker: its configuration, position and result
    checker,
    \* --- a key put through HashKey and UnhashKey
    hashing,
    \* --- one call of the retrying dbconn.NewTableLock: its locals and result
    tableLock,
    \* --- a MetadataLock: its refresh goroutine, connection and Close calls
    mdl,
    \* --- history (not program state)
    hist

tableVars == <<S, shadow>>
binlogVars == <<binlog, serverPos>>
replVars == <<bufferedPos, flushedPos, useExperimentalBufferedMap, changes, disableDeltaMap, txn, runner, exec, checker, hashing, tableLock, mdl, deltaMap, deltaQueue, enableKeyAboveWatermark>>
chunkerVars == <<maxValue, chunkPtr, watermark, lowerBoundWatermarkMap, chunkSize,
                chunkTimingInfo>>
ckptVars == <<ckpt, checkpointTable>>
vars == <<S, shadow, binlog, serverPos, bufferedPos, flushedPos, useExperimentalBufferedMap,
          changes, disableDeltaMap, txn, runner, exec, checker, hashing, tableLock, mdl, deltaMap, deltaQueue, enableKeyAboveWatermark, maxValue, chunkPtr, watermark, lowerBoundWatermarkMap,
          chunkSize, chunkTimingInfo, workers, currentState, cut, ckpt, checkpointTable, hist>>

\* ------------------------------------------------------------ utilities
Min(a, b) == IF a < b THEN a ELSE b
Max(a, b) == IF a > b THEN a ELSE b

Range(f) == {f[x] : x \in DOMAIN f}

\* The sequences that enumerate the finite set s, each element once.
Perms(s) == {q \in [1..Cardinality(s) -> s] : \A x \in s : \E i \in DOMAIN q : q[i] = x}

\* ------------------------------------------------------------- HashKey
\* Strings are sequences of one-character strings.
PrimaryKeySeparator == <<"-", "#", "-">>

DigitChars == <<"0", "1", "2", "3", "4", "5", "6", "7", "8", "9">>

\* fmt.Sprintf("%v", v) of a non-negative integer: its decimal digits.
RECURSIVE Sprintf_v(_)
Sprintf_v(n) ==
    IF n < 10 THEN <<DigitChars[n + 1]>>
    ELSE Sprintf_v(n \div 10) \o <<DigitChars[(n % 10) + 1]>>

\* strings.Join(parts, sep)
RECURSIVE Join(_, _)
Join(parts, sep) ==
    IF Len(parts) = 0 THEN <<>>
    ELSE IF Len(parts) = 1 THEN parts[1]
    ELSE parts[1] \o sep \o Join(Tail(parts), sep)

\* utils.HashKey: each column formatted with %v, joined by the separator.
HashKey(key) == Join([i \in 1..Len(key) |-> Sprintf_v(key[i])], PrimaryKeySeparator)

\* The rows that `WHERE (pk) IN (<UnhashKey(h)>)` matches: MySQL compares the
\* quoted literal with the key column.
RowsMatching(h) == {k \in Keys : HashKey(<<k>>) = h}

\* --------------------------------------------------- flush statements
\* A statement is [kind, keys, rows]; with no keys and no rows its text is ""
\* and ExecUnderLock / RetryableTransaction skip it.
\* A DELETE builder that yields the empty statement.
createNoDeleteStmt(deleteKeys) == [kind |-> "delete", keys |-> <<>>, rows |-> <<>>]

createDeleteStmt(deleteKeys) == [kind |-> "delete", keys |-> deleteKeys, rows |-> <<>>]

createReplaceStmt(replaceKeys) == [kind |-> "replace", keys |-> replaceKeys, rows |-> <<>>]

\* bufferedMap.createUpsertStmt: one VALUES clause per row image, <<pk, version>>.
createUpsertStmt(insertRows) ==
    [kind |-> "upsert", keys |-> <<>>,
     rows |-> SelectSeq([i \in 1..Len(insertRows) |-> insertRows[i].rowImage],
                        LAMBDA r : r # <<>>)]

\* The effect of one statement on the shadow table:
\*   DELETE FROM shadow WHERE pk IN (keys)
\*   REPLACE INTO shadow SELECT .. FROM S WHERE pk IN (keys)
\*   INSERT INTO shadow VALUES (rows) AS new ON DUPLICATE KEY UPDATE ..
ExecStmt(stmt, sh, src) ==
    LET hit == UNION {RowsMatching(stmt.keys[i]) : i \in 1..Len(stmt.keys)}
        ups == {i \in 1..Len(stmt.rows) : stmt.rows[i][1] \in Keys}
    IN  [k \in Keys |->
            IF stmt.kind = "delete" THEN (IF k \in hit THEN NoRow ELSE sh[k])
            ELSE IF stmt.kind = "replace"
            THEN (IF k \in hit /\ src[k] # NoRow THEN src[k] ELSE sh[k])
            ELSE IF \E i \in ups : stmt.rows[i][1] = k
            THEN <<stmt.rows[CHOOSE i \in ups : stmt.rows[i][1] = k][2]>>
            ELSE sh[k]]

\* The statements of stmts[1..n] whose index is in `applied`, executed one
\* after another.
RECURSIVE ExecStmts(_, _, _, _, _)
ExecStmts(stmts, applied, n, sh, src) ==
    IF n = 0 THEN sh
    ELSE LET before == ExecStmts(stmts, applied, n - 1, sh, src)
         IN  IF n \in applied THEN ExecStmt(stmts[n], before, src) ELSE before

\* subscription.flushDeltaMap, the statement-building loop: `order` is the order
\* in which Go's range visits the map.
RECURSIVE MapStmts(_, _, _, _, _, _)
MapStmts(dm, order, i, deleteKeys, replaceKeys, stmts) ==
    IF i > Len(order)
    THEN stmts \o <<createDeleteStmt(deleteKeys), createReplaceStmt(replaceKeys)>>
    ELSE LET key == order[i]
             d == IF dm[key] THEN Append(deleteKeys, key) ELSE deleteKeys
             r == IF dm[key] THEN replaceKeys ELSE Append(replaceKeys, key)
         IN  IF (i % TargetBatchSize) = 0
             THEN MapStmts(dm, order, i + 1, <<>>, <<>>,
                           stmts \o <<createDeleteStmt(d), createReplaceStmt(r)>>)
             ELSE MapStmts(dm, order, i + 1, d, r, stmts)

flushDeltaMapStmts(dm, order) == MapStmts(dm, order, 1, <<>>, <<>>, <<>>)

\* A merging loop that starts a new statement on the size limit alone.
RECURSIVE QueueStmtsNoSplit(_, _, _, _, _)
QueueStmtsNoSplit(q, i, prevIsDelete, buffer, stmts) ==
    LET emit(b) == IF prevIsDelete THEN createDeleteStmt(b) ELSE createReplaceStmt(b)
    IN  IF i > Len(q)
        THEN Append(stmts, emit(buffer))
        ELSE LET change == q[i]
                 reset == Len(buffer) > TargetBatchSize
             IN  QueueStmtsNoSplit(q, i + 1, change.isDelete,
                                   Append(IF reset THEN <<>> ELSE buffer, change.key),
                                   IF reset THEN Append(stmts, emit(buffer)) ELSE stmts)

\* subscription.flushDeltaQueue, the merging loop.
RECURSIVE QueueStmts(_, _, _, _, _)
QueueStmts(q, i, prevIsDelete, buffer, stmts) ==
    LET emit(b) == IF prevIsDelete THEN createDeleteStmt(b) ELSE createReplaceStmt(b)
    IN  IF i > Len(q)
        THEN Append(stmts, emit(buffer))
        ELSE LET change == q[i]
                 reset == change.isDelete # prevIsDelete \/ Len(buffer) > TargetBatchSize
             IN  QueueStmts(q, i + 1, change.isDelete,
                            Append(IF reset THEN <<>> ELSE buffer, change.key),
                            IF reset THEN Append(stmts, emit(buffer)) ELSE stmts)

\* Nothing to flush: no statement at all.
flushDeltaQueueStmts(q) ==
    IF Len(q) = 0 THEN <<>> ELSE QueueStmts(q, 1, q[1].isDelete, <<>>, <<>>)

\* bufferedMap.Flush, the statement-building loop.
RECURSIVE BufferedStmts(_, _, _, _, _, _)
BufferedStmts(ch, order, i, deleteKeys, upsertRows, stmts) ==
    IF i > Len(order)
    THEN stmts \o <<createDeleteStmt(deleteKeys), createUpsertStmt(upsertRows)>>
    ELSE LET key == order[i]
             d == IF ch[key].isDeleted THEN Append(deleteKeys, key) ELSE deleteKeys
             u == IF ch[key].isDeleted THEN upsertRows ELSE Append(upsertRows, ch[key])
         IN  IF (i % TargetBatchSize) = 0
             THEN BufferedStmts(ch, order, i + 1, <<>>, <<>>,
                                stmts \o <<createDeleteStmt(d), createUpsertStmt(u)>>)
             ELSE BufferedStmts(ch, order, i + 1, d, u, stmts)

bufferedMapFlushStmts(ch, order) == BufferedStmts(ch, order, 1, <<>>, <<>>, <<>>)

\* ------------------------------------------------------- Runner states
stateInitial == 0
stateCopyRows == 1
stateApplyChangeset == 2
stateAnalyzeTable == 3
stateChecksum == 4
statePostChecksum == 5
stateCutOver == 6
stateClose == 7
stateErrCleanup == 8

\* ------------------------------------------------------------ chunker
IdleWorker == [st |-> "idle", lower |-> NoWatermark, upper |-> NoWatermark]

ChunkOf(w) == [lower |-> workers[w].lower, upper |-> workers[w].upper]

\* Keys of the range lower <= k < upper.
KeysIn(chunk) == {k \in Keys : chunk.lower <= k /\ k < chunk.upper}

\* Chunker.IsRead: the final chunk has been handed out.
IsRead == chunkPtr > maxValue

\* Chunker.KeyAboveHighWatermark: the key has not been handed out to any worker.
KeyAboveHighWatermark(key) == key >= chunkPtr

\* The watermark's upper bound; the first chunk of the table follows a nil watermark.
WatermarkUpper(wm) == IF wm = NoWatermark THEN MinKey ELSE wm

\* Step 2 of Feedback: while the pending map has an entry whose lower bound is
\* the watermark's upper bound, remove it and advance the watermark over it.
RECURSIVE bumpWatermark(_, _)
bumpWatermark(wm, pending) ==
    LET next == Sprintf_v(WatermarkUpper(wm))
    IN  IF next \in DOMAIN pending
        THEN bumpWatermark(pending[next].upper,
                           [l \in DOMAIN pending \ {next} |-> pending[l]])
        ELSE [watermark |-> wm, pending |-> pending]

\* A watermark update that takes the completed chunk's upper bound as it comes.
advanceWatermarkToChunk(wm, pending, chunk) == [watermark |-> chunk.upper, pending |-> pending]

\* A watermark update that keeps the largest completed upper bound.
advanceWatermarkToMax(wm, pending, chunk) ==
    [watermark |-> IF chunk.upper > wm THEN chunk.upper ELSE wm, pending |-> pending]

\* Feedback's watermark update: step 1 inserts the completed chunk into the
\* pending map under the canonical form of its lower bound, then step 2.
advanceWatermark(wm, pending, chunk) ==
    bumpWatermark(wm, (Sprintf_v(chunk.lower) :> chunk) @@ pending)

\* Chunker.GetLowWatermark: an error until a first chunk has completed.
GetLowWatermarkErr == watermark = NoWatermark

\* Chunker.Next, called by copier worker w.
Next(w) ==
    /\ currentState = stateCopyRows
    /\ workers[w].st = "idle"
    /\ ~IsRead
    /\ LET upper == Min(chunkPtr + chunkSize, maxValue + 1)
           chunk == [lower |-> chunkPtr, upper |-> upper]
       IN  /\ workers' = [workers EXCEPT ![w] = [st |-> "got", lower |-> chunk.lower,
                                                 upper |-> chunk.upper]]
           /\ chunkPtr' = upper
           /\ hist' = [hist EXCEPT !.handed = @ \cup {chunk},
                                   !.redone = @ \cup ({chunk} \cap hist.base.handed)]
    /\ UNCHANGED <<tableVars, binlogVars, replVars, maxValue, watermark, lowerBoundWatermarkMap,
                   chunkSize, chunkTimingInfo, currentState, cut, ckptVars>>

\* INSERT IGNORE INTO shadow SELECT .. FROM S WHERE <chunk>: rows the shadow
\* table already holds are left as they are.
InsertIgnore(chunk, sh, src) ==
    [k \in Keys |-> IF k \in KeysIn(chunk) /\ sh[k] = NoRow THEN src[k] ELSE sh[k]]

\* Copier worker w copies its chunk in one transaction.
CopyChunk(w) ==
    /\ workers[w].st = "got"
    /\ shadow' = InsertIgnore(ChunkOf(w), shadow, S)
    /\ workers' = [workers EXCEPT ![w].st = "copied"]
    /\ hist' = [hist EXCEPT !.copied = @ \cup {ChunkOf(w)}]
    /\ UNCHANGED <<S, binlogVars, replVars, chunkerVars, currentState, cut, ckptVars>>

\* Chunker.Feedback for the chunk worker w has copied.
Feedback(w) ==
    /\ workers[w].st = "copied"
    /\ LET r == advanceWatermark(watermark, lowerBoundWatermarkMap, ChunkOf(w))
       IN  /\ watermark' = r.watermark
           /\ lowerBoundWatermarkMap' = r.pending
    /\ workers' = [workers EXCEPT ![w] = IdleWorker]
    /\ hist' = [hist EXCEPT !.fed = @ \cup {ChunkOf(w)},
                            !.stashed = @ \cup Range(lowerBoundWatermarkMap')]
    /\ UNCHANGED <<tableVars, binlogVars, replVars, maxValue, chunkPtr, chunkSize, chunkTimingInfo,
                   currentState, cut, ckptVars>>

\* ------------------------------------------- source writes, binary log
\* History of a received row event e: the subscription recorded it and a
\* successful flush has since applied the store to the shadow table.
Applied(e) == e.stored /\ e.flushed

\* Keys some chunk handed out so far covers.
HandedKeys == UNION {KeysIn(c) : c \in hist.handed}

\* A client's committed write on S: an insert or update of row k (a new
\* version), or a delete.  The server appends the row event to the binary log.
\* LOCK TABLES .. WRITE blocks it.  At most `limit` writes happen.
Write(k, deleted, limit) ==
    /\ serverPos < limit
    /\ ~cut.lock /\ ~cut.renamed
    /\ deleted => S[k] # NoRow
    /\ S' = [S EXCEPT ![k] = IF deleted THEN NoRow ELSE <<serverPos + 2>>]
    /\ LET ev == [key |-> <<k>>, deleted |-> deleted,
                  row |-> IF deleted THEN <<>> ELSE <<k, serverPos + 2>>]
       IN  /\ binlog' = Append(binlog, ev)
           /\ hist' = [hist EXCEPT !.log = Append(@, ev)]
    /\ serverPos' = serverPos + 1
    /\ UNCHANGED <<shadow, replVars, chunkerVars, workers, currentState, cut, ckptVars>>

\* ------------------------------------------------------- subscription
\* subscription.keyAboveWatermarkEnabled; Runner.setup attaches the callback.
keyAboveWatermarkEnabled == enableKeyAboveWatermark

\* keyHasChanged without the callback: while enabled, every event is dropped.
keyHasChangedNoCallback(key, deleted) ==
    IF keyAboveWatermarkEnabled
    THEN UNCHANGED <<deltaMap, deltaQueue>>
    ELSE IF disableDeltaMap
    THEN /\ deltaQueue' = Append(deltaQueue, [key |-> HashKey(key), isDelete |-> deleted])
         /\ UNCHANGED deltaMap
    ELSE /\ deltaMap' = (HashKey(key) :> deleted) @@ deltaMap
         /\ UNCHANGED deltaQueue

\* keyHasChanged that keeps a key's first entry.
keyHasChangedKeepFirst(key, deleted) ==
    IF keyAboveWatermarkEnabled /\ KeyAboveHighWatermark(key[1])
    THEN UNCHANGED <<deltaMap, deltaQueue>>
    ELSE IF disableDeltaMap
    THEN /\ deltaQueue' = Append(deltaQueue, [key |-> HashKey(key), isDelete |-> deleted])
         /\ UNCHANGED deltaMap
    ELSE /\ deltaMap' = deltaMap @@ (HashKey(key) :> deleted)
         /\ UNCHANGED deltaQueue

\* keyHasChanged that consults the callback for upsert events only.
keyHasChangedUpsertOnly(key, deleted) ==
    IF ~deleted /\ keyAboveWatermarkEnabled /\ KeyAboveHighWatermark(key[1])
    THEN UNCHANGED <<deltaMap, deltaQueue>>
    ELSE IF disableDeltaMap
    THEN /\ deltaQueue' = Append(deltaQueue, [key |-> HashKey(key), isDelete |-> deleted])
         /\ UNCHANGED deltaMap
    ELSE /\ deltaMap' = (HashKey(key) :> deleted) @@ deltaMap
         /\ UNCHANGED deltaQueue

\* keyHasChanged that consults the callback whether or not the optimisation is on.
keyHasChangedAlwaysCallback(key, deleted) ==
    IF KeyAboveHighWatermark(key[1])
    THEN UNCHANGED <<deltaMap, deltaQueue>>
    ELSE IF disableDeltaMap
    THEN /\ deltaQueue' = Append(deltaQueue, [key |-> HashKey(key), isDelete |-> deleted])
         /\ UNCHANGED deltaMap
    ELSE /\ deltaMap' = (HashKey(key) :> deleted) @@ deltaMap
         /\ UNCHANGED deltaQueue

\* subscription.keyHasChanged
keyHasChanged(key, deleted) ==
    IF keyAboveWatermarkEnabled /\ KeyAboveHighWatermark(key[1])
    THEN UNCHANGED <<deltaMap, deltaQueue>>
    ELSE IF disableDeltaMap
    THEN /\ deltaQueue' = Append(deltaQueue, [key |-> HashKey(key), isDelete |-> deleted])
         /\ UNCHANGED deltaMap
    ELSE /\ deltaMap' = (HashKey(key) :> deleted) @@ deltaMap
         /\ UNCHANGED deltaQueue

\* bufferedMap.HasChanged
HasChanged(key, row, deleted) ==
    IF keyAboveWatermarkEnabled /\ KeyAboveHighWatermark(key[1])
    THEN UNCHANGED changes
    ELSE IF deleted
    THEN changes' = (HashKey(key) :> [isDeleted |-> TRUE, rowImage |-> <<>>]) @@ changes
    ELSE changes' = (HashKey(key) :> [isDeleted |-> FALSE, rowImage |-> row]) @@ changes

\* The delta store (ch, dm, dq) has an entry for key k that says `deleted`; in
\* the queue, the last change of k does.
InStoreOf(ch, dm, dq, k, deleted) ==
    LET h == HashKey(<<k>>)
    IN  IF useExperimentalBufferedMap
        THEN h \in DOMAIN ch /\ ch[h].isDeleted = deleted
        ELSE IF disableDeltaMap
        THEN \E i \in DOMAIN dq :
                /\ dq[i].key = h /\ dq[i].isDelete = deleted
                /\ \A j \in DOMAIN dq : dq[j].key = h => j <= i
        ELSE h \in DOMAIN dm /\ dm[h] = deleted

InStore(k, deleted) == InStoreOf(changes, deltaMap, deltaQueue, k, deleted)

\* The replication client reads the next row event of the binary log and hands
\* it to the table's subscription; the buffered position moves past it.
ReceiveEvent ==
    /\ binlog # <<>>
    /\ IF useExperimentalBufferedMap
       THEN /\ HasChanged(Head(binlog).key, Head(binlog).row, Head(binlog).deleted)
            /\ UNCHANGED <<deltaMap, deltaQueue>>
       ELSE /\ keyHasChanged(Head(binlog).key, Head(binlog).deleted)
            /\ UNCHANGED changes
    /\ binlog' = Tail(binlog)
    /\ bufferedPos' = bufferedPos + 1
    /\ UNCHANGED <<tableVars, serverPos, flushedPos, useExperimentalBufferedMap, disableDeltaMap, txn, runner, exec, checker, hashing, tableLock, mdl,
                   enableKeyAboveWatermark, chunkerVars, workers, currentState, cut, ckptVars>>
    /\ hist' = [hist EXCEPT !.events =
                  Append(@, [key |-> Head(binlog).key[1], deleted |-> Head(binlog).deleted,
                             above |-> Head(binlog).key[1] \notin HandedKeys,
                             enabled |-> keyAboveWatermarkEnabled,
                             callback |-> KeyAboveHighWatermark(Head(binlog).key[1]),
                             stored |-> InStoreOf(changes', deltaMap', deltaQueue',
                                                  Head(binlog).key[1], Head(binlog).deleted),
                             flushed |-> FALSE])]

\* The hashed keys the delta store holds.
StoreKeys ==
    IF useExperimentalBufferedMap THEN DOMAIN changes
    ELSE IF disableDeltaMap THEN {deltaQueue[i].key : i \in DOMAIN deltaQueue}
    ELSE DOMAIN deltaMap

\* The statements subscription.flush builds; `order` is the map iteration order.
FlushStmts(order) ==
    IF useExperimentalBufferedMap THEN bufferedMapFlushStmts(changes, order)
    ELSE IF disableDeltaMap THEN flushDeltaQueueStmts(deltaQueue)
    ELSE flushDeltaMapStmts(deltaMap, order)

IsEmptyStmt(stmt) == stmt.keys = <<>> /\ stmt.rows = <<>>

\* Which statements can have taken effect when the execution returns:
\*  - TableLock.ExecUnderLock runs them in order on the lock's connection and
\*    returns at the first error; empty statements are skipped;
\*  - the queue runs them in one RetryableTransaction: all or none;
\*  - the maps run each in a transaction of its own, in parallel.
FlushOutcomes(stmts, underLock) ==
    IF underLock
    THEN {1..n : n \in {m \in 0..Len(stmts) : m = Len(stmts) \/ ~IsEmptyStmt(stmts[m + 1])}}
    ELSE IF disableDeltaMap /\ ~useExperimentalBufferedMap
    THEN {{}, 1..Len(stmts)}
    ELSE SUBSET (1..Len(stmts))

\* Client.flush: the buffered position is taken, the subscription flushes
\* (subscription.flush / bufferedMap.Flush, holding the subscription's mutex),
\* and on success the store is emptied and the flushed position set.
flush(underLock, ok) ==
    \E order \in Perms(IF disableDeltaMap THEN {} ELSE StoreKeys) :
        LET stmts == FlushStmts(order)
        IN  \E applied \in FlushOutcomes(stmts, underLock) :
                /\ ok = (applied = 1..Len(stmts))
                /\ shadow' = ExecStmts(stmts, applied, Len(stmts), shadow, S)
                /\ IF ok
                   THEN /\ changes' = <<>>
                        /\ deltaMap' = <<>>
                        /\ deltaQueue' = <<>>
                        /\ flushedPos' = bufferedPos
                        /\ hist' = [hist EXCEPT
                              !.events = [i \in DOMAIN @ |-> [@[i] EXCEPT !.flushed = TRUE]],
                              !.flushes = IF StoreKeys = {} THEN @ ELSE @ + 1]
                   ELSE UNCHANGED <<changes, deltaMap, deltaQueue, flushedPos, hist>>

\* subscription.getDeltaLen and bufferedMap.Length: the size of the store in use.
getDeltaLen ==
    IF useExperimentalBufferedMap THEN Cardinality(DOMAIN changes)
    ELSE IF disableDeltaMap THEN Len(deltaQueue)
    ELSE Cardinality(DOMAIN deltaMap)

\* An AllChangesFlushed that also compares the flushed and buffered positions.
AllChangesFlushedComparesPositions == flushedPos = bufferedPos /\ getDeltaLen = 0

\* Client.AllChangesFlushed, as TestAllChangesFlushed fixes it: true when no
\* subscription has a pending change, whether or not the positions agree.
AllChangesFlushed == getDeltaLen = 0

\* One pass of Client.Flush outside the cutover (the periodic flush, a test's
\* call).  Client.Flush is flush, BlockWait, flush: passes of this action with
\* ReceiveEvent steps between them.  Runner.prepareForCutover stops the
\* periodic flush.
Flush ==
    /\ ~cut.lock
    /\ currentState \in {stateInitial, stateCopyRows}
    /\ \E ok \in BOOLEAN : flush(FALSE, ok)
    /\ UNCHANGED <<S, binlogVars, bufferedPos, useExperimentalBufferedMap, disableDeltaMap, txn, runner, exec, checker, hashing, tableLock, mdl,
                   enableKeyAboveWatermark, chunkerVars, workers, currentState, cut, ckptVars>>

\* -------------------------------------------------------------- Runner
\* setCurrentState that leaves the key-above-watermark optimisation as it is.
setCurrentStateKeepOptimization(s) ==
    /\ currentState' = s
    /\ UNCHANGED enableKeyAboveWatermark

\* Runner.setCurrentState: past the copy phase the optimisation is switched off.
setCurrentState(s) ==
    /\ currentState' = s
    /\ enableKeyAboveWatermark' = IF s > stateCopyRows THEN FALSE ELSE enableKeyAboveWatermark

\* Runner.Run enters the copy phase; from here the key-above-watermark
\* optimisation is on and the copier's workers run.
StartCopyRows ==
    /\ currentState = stateInitial
    /\ currentState' = stateCopyRows
    /\ enableKeyAboveWatermark' = TRUE
    /\ UNCHANGED <<tableVars, binlogVars, bufferedPos, flushedPos, useExperimentalBufferedMap,
                   changes, disableDeltaMap, txn, runner, exec, checker, hashing, tableLock, mdl, deltaMap, deltaQueue, chunkerVars, workers, cut,
                   ckptVars, hist>>

\* copier.Run returns once the chunker is read and every worker has finished;
\* prepareForCutover begins with setCurrentState(stateApplyChangeset).
CopyRowsComplete ==
    /\ currentState = stateCopyRows
    /\ IsRead
    /\ \A w \in Workers : workers[w].st = "idle"
    /\ setCurrentState(stateApplyChangeset)
    /\ UNCHANGED <<tableVars, binlogVars, bufferedPos, flushedPos, useExperimentalBufferedMap,
                   changes, disableDeltaMap, txn, runner, exec, checker, hashing, tableLock, mdl, deltaMap, deltaQueue, chunkerVars, workers, cut,
                   ckptVars, hist>>

\* prepareForCutover: the flush of all pending events; an error ends Run.
ApplyChangeset ==
    /\ currentState = stateApplyChangeset
    /\ \E ok \in BOOLEAN :
          /\ flush(FALSE, ok)
          /\ currentState' = IF ok THEN stateAnalyzeTable ELSE stateClose
    /\ UNCHANGED <<S, binlogVars, bufferedPos, useExperimentalBufferedMap, disableDeltaMap, txn, runner, exec, checker, hashing, tableLock, mdl,
                   enableKeyAboveWatermark, chunkerVars, workers, cut, ckptVars>>

\* prepareForCutover: ANALYZE TABLE; with Checksum off, Run goes on to
\* setCurrentState(stateCutOver) and CutOver.Run.  An error ends Run.
AnalyzeTable ==
    /\ currentState = stateAnalyzeTable
    /\ \E ok \in BOOLEAN :
          IF ok
          THEN /\ setCurrentState(stateCutOver)
               /\ cut' = [cut EXCEPT !.pc = "flush"]
          ELSE /\ setCurrentState(stateClose)
               /\ UNCHANGED cut
    /\ UNCHANGED <<tableVars, binlogVars, bufferedPos, flushedPos, useExperimentalBufferedMap,
                   changes, disableDeltaMap, txn, runner, exec, checker, hashing, tableLock, mdl, deltaMap, deltaQueue, chunkerVars, workers,
                   ckptVars, hist>>

\* ------------------------------------------------------------- cutover
\* A failed attempt after which Run keeps the error of its first failed attempt.
AttemptFailedKeepsFirstError(step) ==
    cut' = [cut EXCEPT !.lock = FALSE, !.flushOK = FALSE, !.err = TRUE,
                       !.failed = IF cut.errs = <<>> THEN step ELSE cut.errs[1],
                       !.attempt = @ + 1, !.errs = Append(@, step),
                       !.pc = IF cut.attempt + 1 < cut.maxRetries THEN "flush" ELSE "done"]

\* An attempt of algorithmRenameUnderLock returns an error from step `step`:
\* the deferred tableLock.Close releases the lock, and CutOver.Run continues with
\* the next attempt or, the retries exhausted, returns the error.
AttemptFailed(step) ==
    cut' = [cut EXCEPT !.lock = FALSE, !.flushOK = FALSE, !.err = TRUE, !.failed = step,
                       !.attempt = @ + 1, !.errs = Append(@, step),
                       !.pc = IF cut.attempt + 1 < cut.maxRetries THEN "flush" ELSE "done"]

cutoverFrame == <<S, binlogVars, bufferedPos, useExperimentalBufferedMap, disableDeltaMap, txn, runner, exec, checker, hashing, tableLock, mdl,
                  enableKeyAboveWatermark, chunkerVars, workers, currentState, ckptVars>>

\* CutOver.Run is called: `var err error`, and the loop is entered if
\* 0 < MaxRetries; otherwise Run falls through to `return err`.
CutOverRun ==
    /\ cut.pc = "run"
    /\ cut' = [cut EXCEPT !.pc = IF 0 < cut.maxRetries THEN "flush" ELSE "done"]
    /\ UNCHANGED <<tableVars, binlogVars, replVars, chunkerVars, workers, currentState, ckptVars,
                   hist>>

\* CutOver.Run, top of the loop: catch up outside the lock; an error is returned.
CutOverFlush ==
    /\ cut.pc = "flush"
    /\ \E ok \in BOOLEAN :
          /\ flush(FALSE, ok)
          /\ cut' = IF ok THEN [cut EXCEPT !.pc = "lock", !.err = FALSE, !.failed = "none"]
                    ELSE [cut EXCEPT !.pc = "done", !.err = TRUE, !.failed = "preflush"]
    /\ UNCHANGED cutoverFrame

\* A lock step whose error is not returned: the attempt goes on without the lock.
NewTableLockErrorIgnored ==
    /\ cut.pc = "lock"
    /\ \/ /\ cut' = [cut EXCEPT !.pc = "flushUnderLock", !.lock = TRUE]
          /\ hist' = [hist EXCEPT !.SAtLock = S]
       \/ /\ cut' = [cut EXCEPT !.pc = "flushUnderLock"]
          /\ UNCHANGED hist
    /\ UNCHANGED <<tableVars, binlogVars, replVars, chunkerVars, workers, currentState, ckptVars>>

\* dbconn.NewTableLock: LOCK TABLES S WRITE, shadow WRITE; no retries.
NewTableLock ==
    /\ cut.pc = "lock"
    /\ \/ /\ cut' = [cut EXCEPT !.pc = "flushUnderLock", !.lock = TRUE]
          /\ hist' = [hist EXCEPT !.SAtLock = S]
       \/ /\ AttemptFailed("lock")
          /\ UNCHANGED hist
    /\ UNCHANGED <<tableVars, binlogVars, replVars, chunkerVars, workers, currentState, ckptVars>>

\* Client.FlushUnderTableLock, first flush on the lock's connection.
FlushUnderTableLock ==
    /\ cut.pc = "flushUnderLock"
    /\ \E ok \in BOOLEAN :
          /\ flush(TRUE, ok)
          /\ IF ok THEN cut' = [cut EXCEPT !.pc = "blockWait"] ELSE AttemptFailed("flush")
    /\ UNCHANGED cutoverFrame

\* Client.BlockWait inside FlushUnderTableLock: returns once the buffered
\* position has reached the server's position, or with an error on a timeout.
BlockWait ==
    /\ cut.pc = "blockWait"
    /\ \/ /\ bufferedPos >= serverPos
          /\ cut' = [cut EXCEPT !.pc = "flushUnderLock2"]
       \/ AttemptFailed("flush")
    /\ UNCHANGED <<tableVars, binlogVars, replVars, chunkerVars, workers, currentState, ckptVars,
                   hist>>

\* Client.FlushUnderTableLock, final flush.
FinalFlushUnderTableLock ==
    /\ cut.pc = "flushUnderLock2"
    /\ \E ok \in BOOLEAN :
          /\ flush(TRUE, ok)
          /\ IF ok THEN cut' = [cut EXCEPT !.pc = "check", !.flushOK = TRUE]
             ELSE AttemptFailed("flush")
    /\ UNCHANGED cutoverFrame

\* algorithmRenameUnderLock from the AllChangesFlushed check on: an error if
\* not all changes are flushed, else RENAME TABLE on the lock's connection;
\* the deferred Close releases the lock.
RenameUnderLock ==
    /\ cut.pc = "check"
    /\ IF ~AllChangesFlushed
       THEN AttemptFailed("check")
       ELSE \/ cut' = [cut EXCEPT !.pc = "done", !.renamed = TRUE, !.lock = FALSE]
            \/ AttemptFailed("rename")
    /\ UNCHANGED <<tableVars, binlogVars, replVars, chunkerVars, workers, currentState, ckptVars,
                   hist>>

\* ------------------------------------------------------- checkpointer
\* Client.GetBinlogApplyPosition: the flushed position.
GetBinlogApplyPosition == flushedPos

\* A first step of dumpCheckpoint that takes the buffered position.
DumpReadBufferedPosition ==
    /\ ckpt.pc = "idle"
    /\ currentState < stateCutOver
    /\ Len(checkpointTable) < MaxCheckpoints
    /\ ckpt' = [ckpt EXCEPT !.pc = "watermark", !.binlog = bufferedPos]
    /\ hist' = [hist EXCEPT !.wmAtPosRead = watermark]
    /\ UNCHANGED <<tableVars, binlogVars, replVars, chunkerVars, workers, currentState, cut,
                   checkpointTable>>

\* dumpCheckpointContinuously's tick before the cutover, and dumpCheckpoint's
\* first statement: the binlog position is retrieved first.
DumpReadPosition ==
    /\ ckpt.pc = "idle"
    /\ currentState < stateCutOver
    /\ Len(checkpointTable) < MaxCheckpoints
    /\ ckpt' = [ckpt EXCEPT !.pc = "watermark", !.binlog = GetBinlogApplyPosition]
    /\ hist' = [hist EXCEPT !.wmAtPosRead = watermark]
    /\ UNCHANGED <<tableVars, binlogVars, replVars, chunkerVars, workers, currentState, cut,
                   checkpointTable>>

\* Chunks handed to a worker that has not called Feedback for them yet.
InFlight == {ChunkOf(w) : w \in {v \in Workers : workers[v].st # "idle"}}

\* dumpCheckpoint: copier.GetLowWatermark; on its error dumpCheckpoint returns.
DumpReadLowWatermark ==
    /\ ckpt.pc = "watermark"
    /\ IF GetLowWatermarkErr
       THEN /\ ckpt' = [ckpt EXCEPT !.pc = "idle"]
            /\ UNCHANGED hist
       ELSE /\ ckpt' = [ckpt EXCEPT !.pc = "insert", !.lowWatermark = watermark]
            /\ hist' = [hist EXCEPT !.rows = Append(@,
                          [wmAtPosRead |-> hist.wmAtPosRead, lowWatermark |-> watermark,
                           handed |-> hist.handed,
                           inflight |-> InFlight,
                           pending |-> Range(lowerBoundWatermarkMap)])]
    /\ UNCHANGED <<tableVars, binlogVars, replVars, chunkerVars, workers, currentState, cut,
                   checkpointTable>>

\* dumpCheckpoint: INSERT INTO the checkpoint table; it can fail.
DumpInsert ==
    /\ ckpt.pc = "insert"
    /\ ckpt' = [ckpt EXCEPT !.pc = "idle"]
    /\ \/ /\ checkpointTable' = Append(checkpointTable,
                 [low_watermark |-> ckpt.lowWatermark, binlog_pos |-> ckpt.binlog])
          /\ UNCHANGED hist
       \/ /\ UNCHANGED checkpointTable
          /\ hist' = [hist EXCEPT !.rows = SubSeq(@, 1, Len(@) - 1)]
    /\ UNCHANGED <<tableVars, binlogVars, replVars, chunkerVars, workers, currentState, cut>>

\* The process is gone with everything it held in memory, and a new Runner
\* resumes from the row `row` of the checkpoint table: the copier's chunker
\* opens at the row's low watermark, the replication client starts from the
\* row's binlog position with an empty delta store.
ResumeFrom(row) ==
    /\ chunkPtr' = row.low_watermark
    /\ watermark' = row.low_watermark
    /\ lowerBoundWatermarkMap' = <<>>
    /\ workers' = [w \in Workers |-> IdleWorker]
    /\ bufferedPos' = row.binlog_pos
    /\ flushedPos' = row.binlog_pos
    /\ binlog' = SubSeq(hist.log, row.binlog_pos + 1, Len(hist.log))
    /\ changes' = <<>>
    /\ deltaMap' = <<>>
    /\ deltaQueue' = <<>>
    /\ ckpt' = [pc |-> "idle", binlog |-> 0, lowWatermark |-> NoWatermark]

\* A resume that reads the oldest row of the checkpoint table.
resumeFromOldestCheckpoint == ResumeFrom(checkpointTable[1])

\* Runner.resumeFromCheckpoint: the newest row (ORDER BY id DESC LIMIT 1).
resumeFromCheckpoint == ResumeFrom(checkpointTable[Len(checkpointTable)])

\* The migration is killed during the copy and started again; it resumes.
Resume ==
    /\ currentState = stateCopyRows
    /\ ~hist.resumed
    /\ ckpt.pc = "idle"
    /\ Len(checkpointTable) > 0
    /\ resumeFromCheckpoint
    /\ hist' = [hist EXCEPT !.resumed = TRUE, !.base = hist.rows[Len(hist.rows)],
                            !.handed = {}, !.copied = {}, !.fed = {}, !.stashed = {},
                            !.events = SubSeq(@, 1, flushedPos')]
    /\ UNCHANGED <<tableVars, serverPos, useExperimentalBufferedMap, disableDeltaMap, txn, runner, exec, checker, hashing, tableLock, mdl,
                   enableKeyAboveWatermark, maxValue, chunkSize, chunkTimingInfo, currentState, cut,
                   checkpointTable>>

\* ------------------------------------------- dbconn.RetryableTransaction
errLockWaitTimeout == 1205
errDeadlock == 1213
errCannotConnect == 2003
errConnLost == 2013
errReadOnly == 1290
errQueryKilled == 1836

\* A nil error, a *mysql.MySQLError with its number, and any other error.
NilError == [kind |-> "nil", number |-> 0]

MySQLError(n) == [kind |-> "mysql", number |-> n]

OtherError(what) == [kind |-> what, number |-> 0]

\* Errors a statement may fail with: the six numbers canRetryError knows, two
\* other server errors, and an error that is no *mysql.MySQLError.
ExecErrors ==
    {MySQLError(n) : n \in {errLockWaitTimeout, errDeadlock, errCannotConnect, errConnLost,
                            errReadOnly, errQueryKilled, 1062, 1146}}
        \cup {OtherError("driver")}

\* What SHOW WARNINGS may list after a statement.
WarningLists == {<<>>, <<1062>>, <<3170>>, <<1264>>, <<3170, 1062>>, <<1062, 1264>>}

\* canRetryError without errCannotConnect.
canRetryErrorFive(err) ==
    LET errNumber == IF err.kind = "mysql" THEN err.number ELSE 0
    IN  errNumber \in {errLockWaitTimeout, errDeadlock, errConnLost, errReadOnly,
                       errQueryKilled}

\* canRetryError
canRetryError(err) ==
    LET errNumber == IF err.kind = "mysql" THEN err.number ELSE 0
    IN  errNumber \in {errLockWaitTimeout, errDeadlock, errCannotConnect, errConnLost,
                       errReadOnly, errQueryKilled}

\* The warning check that passes 1062 whatever ignoreDupKeyWarnings says.
WarningIgnoredAlways1062(code, ignoreDupKeyWarnings) == code = 1062 \/ code = 3170

\* The warning check of RetryableTransaction: 1062 passes when the caller asked
\* for it, 3170 always, everything else is unsafe.
WarningIgnored(code, ignoreDupKeyWarnings) ==
    (code = 1062 /\ ignoreDupKeyWarnings) \/ code = 3170

\* The first warning of `codes` that is not ignored, 0 when there is none.
RECURSIVE FirstUnsafeWarning(_, _)
FirstUnsafeWarning(codes, ignoreDupKeyWarnings) ==
    IF codes = <<>> THEN 0
    ELSE IF WarningIgnored(Head(codes), ignoreDupKeyWarnings)
    THEN FirstUnsafeWarning(Tail(codes), ignoreDupKeyWarnings)
    ELSE Head(codes)

\* No call of RetryableTransaction is in progress.
NoTxn == [pc |-> "none"]

txnFrame == <<tableVars, binlogVars, bufferedPos, flushedPos, useExperimentalBufferedMap,
              changes, disableDeltaMap, runner, exec, checker, hashing, tableLock, mdl, deltaMap, deltaQueue,
              enableKeyAboveWatermark, chunkerVars, workers, currentState, cut, ckptVars, hist>>

\* An iteration of RETRYLOOP ends in `continue` with the error err: the next
\* iteration follows, or with the retries used up the loop ends.
TxnContinue(err, event) ==
    txn' = [txn EXCEPT !.pc = "begin", !.i = @ + 1, !.err = err, !.open = FALSE,
                       !.fails = Append(@, err), !.ev = event]

\* RetryableTransaction rolls back and returns the error err.
TxnReturnError(err, event) ==
    txn' = [txn EXCEPT !.pc = "returned", !.ret = err, !.open = FALSE, !.ev = event,
                       !.fails = Append(@, err)]

\* Top of RETRYLOOP: db.BeginTx; on its error the iteration is over.
TxnBegin ==
    /\ txn.pc = "begin" /\ txn.i < txn.maxRetries
    /\ \/ txn' = [txn EXCEPT !.pc = "standardize", !.open = TRUE, !.begun = @ + 1,
                             !.ev = "begin", !.attemptRows = 0]
       \/ TxnContinue(OtherError("begin"), "beginErr")
    /\ UNCHANGED txnFrame

\* standardizeTrx; on its error rollback and the next iteration.
TxnStandardize ==
    /\ txn.pc = "standardize"
    /\ \/ txn' = [txn EXCEPT !.pc = "exec", !.s = 1, !.err = NilError, !.ev = "standardize"]
       \/ TxnContinue(OtherError("standardize"), "standardizeErr")
    /\ UNCHANGED txnFrame

\* trx.ExecContext of the next statement; "" is skipped.  A retryable error
\* rolls back and continues the loop, any other rolls back and is returned.
TxnExec ==
    /\ txn.pc = "exec" /\ txn.s <= Len(txn.stmts)
    /\ IF txn.stmts[txn.s] = ""
       THEN txn' = [txn EXCEPT !.s = @ + 1, !.ev = "skip"]
       ELSE \/ \E w \in WarningLists :
                 txn' = [txn EXCEPT !.pc = "warnings", !.err = NilError, !.warnings = w,
                                    !.ev = "exec"]
            \/ \E e \in ExecErrors :
                 IF canRetryError(e) THEN TxnContinue(e, "execErr")
                 ELSE TxnReturnError(e, "execErr")
    /\ UNCHANGED txnFrame

\* SHOW WARNINGS after a statement: a query or scan error, or the first unsafe
\* warning, rolls back and is returned; otherwise res.RowsAffected() is added
\* to rowsAffected (declared before RETRYLOOP) and the next statement follows.
\* txn.attemptRows is the part of it added since the last BeginTx (history).
TxnWarnings ==
    /\ txn.pc = "warnings"
    /\ \/ TxnReturnError(OtherError("show warnings"), "warningsErr")
       \/ LET code == FirstUnsafeWarning(txn.warnings, txn.ignoreDupKeyWarnings)
          IN  IF code # 0
              THEN TxnReturnError([kind |-> "unsafe warning", number |-> code],
                                  "unsafeWarning")
              ELSE \E count \in 0..MaxRowsAffected :
                      txn' = [txn EXCEPT !.pc = "exec", !.s = @ + 1, !.ev = "warningsOK",
                                         !.rowsAffected = @ + count,
                                         !.attemptRows = @ + count]
    /\ UNCHANGED txnFrame

\* trx.Commit after the last statement: success returns nil, an error rolls
\* back and continues the loop.
TxnCommit ==
    /\ txn.pc = "exec" /\ txn.s > Len(txn.stmts)
    /\ \/ txn' = [txn EXCEPT !.pc = "returned", !.ret = NilError, !.open = FALSE,
                             !.committed = @ + 1, !.ev = "commit"]
       \/ TxnContinue(OtherError("commit"), "commitErr")
    /\ UNCHANGED txnFrame

\* The end of the loop returning nil.
TxnExhaustedReturnsNil ==
    /\ txn.pc = "begin" /\ txn.i >= txn.maxRetries
    /\ txn' = [txn EXCEPT !.pc = "returned", !.ret = NilError, !.ev = "exhausted"]
    /\ UNCHANGED txnFrame

\* The loop is over without a commit: the last error is returned.
TxnExhausted ==
    /\ txn.pc = "begin" /\ txn.i >= txn.maxRetries
    /\ txn' = [txn EXCEPT !.pc = "returned", !.ret = txn.err, !.ev = "exhausted"]
    /\ UNCHANGED txnFrame

\* --------------------------------- dbconn.NewTableLock with retries
\* tableLock holds one call:
\*   tableLock.i        the loop variable; tableLock.err and tableLock.isFatal
\*                      the locals declared before the loop
\*   tableLock.open     lockTxn is an open transaction
\*   tableLock.log      per attempt, its error, the statement it came from and
\*                      whether backoff(i) was called (history)
\*   tableLock.ret      the returned error; tableLock.acquired a lock returned
\* Errors SELECT CONNECTION_ID() and LOCK TABLES may fail with: two retryable
\* numbers, a server error that is not retryable, and a driver error.
LockErrors ==
    {MySQLError(n) : n \in {errLockWaitTimeout, errDeadlock, 1142}} \cup {OtherError("driver")}

tableLockFrame == <<tableVars, binlogVars, bufferedPos, flushedPos, useExperimentalBufferedMap,
                    changes, disableDeltaMap, txn, runner, exec, checker, hashing, mdl,
                    deltaMap, deltaQueue, enableKeyAboveWatermark, chunkerVars, workers,
                    currentState, cut, ckptVars, hist>>

\* The end of an attempt: `if err == nil { return lock }`, else the next
\* iteration of `for i := range config.MaxRetries`.
TableLockAttemptEnd(from, err, isFatal, backedOff) ==
    tableLock' = [tableLock EXCEPT
                    !.err = err, !.isFatal = isFatal, !.i = @ + 1, !.open = FALSE,
                    !.log = Append(@, [from |-> from, err |-> err, backoff |-> backedOff])]

\* One iteration of the loop of NewTableLock, the body of its func():
\* BeginTx; SELECT CONNECTION_ID(), whose error sets isFatal and returns
\* before the rollback is deferred; LOCK TABLES, whose error sets isFatal
\* unless canRetryError; the deferred function rolls back on an error and
\* calls backoff(i) if i < MaxRetries-1 and isFatal is not set.  After func()
\* only `err == nil` is tested.
NewTableLockAttempt ==
    /\ tableLock.pc = "loop" /\ tableLock.i < tableLock.maxRetries
    /\ \/ \E e \in LockErrors : TableLockAttemptEnd("CONNECTION_ID", e, TRUE, FALSE)
       \/ tableLock' = [tableLock EXCEPT
                          !.pc = "returned", !.err = NilError, !.ret = NilError,
                          !.acquired = TRUE, !.open = TRUE,
                          !.log = Append(@, [from |-> "none", err |-> NilError, backoff |-> FALSE])]
       \/ \E e \in LockErrors :
             LET isFatal == tableLock.isFatal \/ ~canRetryError(e)
             IN  TableLockAttemptEnd("LOCK TABLES", e, isFatal,
                                     tableLock.i < tableLock.maxRetries - 1 /\ ~isFatal)
    /\ UNCHANGED tableLockFrame

\* The loop is over: `return nil, err`.
NewTableLockExhausted ==
    /\ tableLock.pc = "loop" /\ tableLock.i >= tableLock.maxRetries
    /\ tableLock' = [tableLock EXCEPT !.pc = "returned", !.ret = tableLock.err]
    /\ UNCHANGED tableLockFrame

\* ------------------------------------------------------ MetadataLock
\* mdl holds a lock NewMetadataLock returned:
\*   mdl.goroutine   the refresh goroutine: in its select ("running"), at
\*                   the send on closeCh ("send") or returned
\*   mdl.ctxDone     the context the goroutine selects on is done (cancelled
\*                   by Close, or its parent was cancelled)
\*   mdl.dbClosed    dbConn.Close() has been called
\*   mdl.refreshes   ticks on which getLock ran again, mdl.refreshed whether
\*                   the last of them returned no error
\*   mdl.close       per caller of Close: not called ("idle"), at the receive
\*                   from closeCh ("recv") or returned
Closers == 1..MaxCloses

mdlFrame == <<tableVars, binlogVars, bufferedPos, flushedPos, useExperimentalBufferedMap,
              changes, disableDeltaMap, txn, runner, exec, checker, hashing, tableLock,
              deltaMap, deltaQueue, enableKeyAboveWatermark, chunkerVars, workers,
              currentState, cut, ckptVars, hist>>

\* The context passed to NewMetadataLock is cancelled: the context derived
\* from it with WithCancel is done as well.
MdlParentCancelled ==
    /\ mdl.pc = "held" /\ ~mdl.parentDone
    /\ mdl' = [mdl EXCEPT !.parentDone = TRUE, !.ctxDone = TRUE]
    /\ UNCHANGED mdlFrame

\* The goroutine's select takes the ticker: getLock again, its error logged.
\* With the context done and a tick pending the select takes either case.
MdlRefresh ==
    /\ mdl.goroutine = "running"
    /\ mdl.refreshes < MaxRefreshes
    /\ \E refreshed \in BOOLEAN :
          mdl' = [mdl EXCEPT !.refreshes = @ + 1, !.refreshed = refreshed]
    /\ UNCHANGED mdlFrame

\* The goroutine's select takes ctx.Done(): dbConn.Close() is evaluated and
\* the goroutine goes on to send its result on the unbuffered closeCh.
MdlCtxDone ==
    /\ mdl.goroutine = "running"
    /\ mdl.ctxDone
    /\ mdl' = [mdl EXCEPT !.goroutine = "send", !.dbClosed = TRUE]
    /\ UNCHANGED mdlFrame

\* MetadataLock.Close, m.cancel not nil: m.cancel(), then the receive from
\* m.closeCh.
MdlClose ==
    /\ mdl.pc = "held"
    /\ \E c \in Closers :
          /\ mdl.close[c] = "idle"
          /\ mdl' = [mdl EXCEPT !.close[c] = "recv", !.ctxDone = TRUE]
    /\ UNCHANGED mdlFrame

\* The send of the goroutine meets the receive of one Close: Close returns
\* the value and the goroutine returns (its deferred ticker.Stop runs).
MdlCloseReturns ==
    /\ mdl.goroutine = "send"
    /\ \E c \in Closers :
          /\ mdl.close[c] = "recv"
          /\ mdl' = [mdl EXCEPT !.close[c] = "returned", !.goroutine = "returned"]
    /\ UNCHANGED mdlFrame

\* ------------------------------------------------------ initial states
EmptyTable == [k \in Keys |-> NoRow]

InitialRow == <<1>>

NoBase == [wmAtPosRead |-> NoWatermark, lowWatermark |-> NoWatermark, handed |-> {}, inflight |-> {}, pending |-> {}]

InitHist(s0) ==
    [handed |-> {}, copied |-> {}, fed |-> {}, stashed |-> {}, log |-> <<>>, events |-> <<>>,
     flushes |-> 0, SAtLock |-> s0, wmAtPosRead |-> NoWatermark, rows |-> <<>>,
     resumed |-> FALSE, base |-> NoBase, redone |-> {}, feedback |-> [d |-> 0, n |-> 0]]

InitTables ==
    /\ S \in [Keys -> {NoRow, InitialRow}]
    /\ shadow = EmptyTable

InitRepl(bufferedModes, queueModes) ==
    /\ binlog = <<>>
    /\ serverPos = 0
    /\ bufferedPos = 0
    /\ flushedPos = 0
    /\ useExperimentalBufferedMap \in bufferedModes
    /\ changes = <<>>
    /\ disableDeltaMap \in queueModes
    /\ ~(useExperimentalBufferedMap /\ disableDeltaMap)
    /\ deltaMap = <<>>
    /\ deltaQueue = <<>>
    /\ enableKeyAboveWatermark = FALSE

\* NewChunker and Open: nothing handed out, no watermark, an empty pending map.
InitChunker(mv, sizes) ==
    /\ maxValue = mv
    /\ chunkPtr = MinKey
    /\ watermark = NoWatermark
    /\ lowerBoundWatermarkMap = <<>>
    /\ chunkSize \in sizes
    /\ chunkTimingInfo = <<>>
    /\ workers = [w \in Workers |-> IdleWorker]

InitCutOver == cut = [pc |-> "idle", attempt |-> 0, lock |-> FALSE, flushOK |-> FALSE,
                      renamed |-> FALSE, err |-> FALSE, failed |-> "none", errs |-> <<>>,
                 maxRetries |-> MaxRetries]

InitCheckpointer ==
    /\ ckpt = [pc |-> "idle", binlog |-> 0, lowWatermark |-> NoWatermark]
    /\ checkpointTable = <<>>

\* ------------------------------------------------------- Runner.setup
\* No run is starting.
NoSetup == [pc |-> "none"]
NoExec == [pc |-> "none"]
NoChecker == [pc |-> "none"]
NoHashing == [pc |-> "none"]
NoTableLock == [pc |-> "none"]
NoMetadataLock == [pc |-> "none"]

\* The alter statements a run can be started with.
Alters == {"ENGINE=InnoDB", "ADD INDEX (b)"}

\* A statement of the run that drops, creates or alters a table.
DDL(op, tbl) == [op |-> op, table |-> tbl]

\* pool.Exec of a statement can fail.
errExec == OtherError("exec")

\* Everything setup leaves alone unless the resume succeeds.
setupFrame == <<S, binlogVars, bufferedPos, flushedPos, useExperimentalBufferedMap, changes,
                disableDeltaMap, txn, exec, checker, hashing, tableLock, mdl, deltaMap, deltaQueue,
                enableKeyAboveWatermark, chunkerVars, workers, currentState, cut, ckpt, hist>>

\* setup returns err to Runner.Run (nil: the run goes on to the copy).
SetupReturn(err) == runner' = [runner EXCEPT !.pc = "returned", !.ret = err]

\* setup: DROP TABLE IF EXISTS _t_old, then the attempt to resume.
dropOldTable ==
    /\ runner.pc = "dropOldTable"
    /\ \/ runner' = [runner EXCEPT !.pc = "resumeFromCheckpoint", !.oldTableExists = FALSE,
                                   !.ddl = Append(@, DDL("DROP", "_old"))]
       \/ SetupReturn(errExec)
    /\ UNCHANGED <<setupFrame, shadow, checkpointTable>>

\* The error resumeFromCheckpoint returns: the new table cannot be read, the
\* checkpoint table has no newest row, the row's alter_statement is not the
\* requested one, or replClient.Run cannot start from the row's binlog file.
resumeError ==
    IF ~runner.newTableExists THEN OtherError("could not read from table _new")
    ELSE IF ~runner.cpTableExists \/ checkpointTable = <<>>
    THEN OtherError("could not read from table _chkpnt")
    ELSE IF runner.alter # checkpointTable[Len(checkpointTable)].alter_statement
    THEN OtherError("alter statement in checkpoint table does not match")
    ELSE IF ~runner.binlogAvailable THEN OtherError("replClient.Run")
    ELSE NilError

\* The copier and the replication client resumeFromCheckpoint has built from
\* the row `row` by the time replClient.Run fails: NewCopierFromCheckpoint at
\* the row's low watermark, NewClient with SetPos at the row's position.
ResumeAttemptFrom(row) ==
    /\ chunkPtr' = row.low_watermark
    /\ watermark' = row.low_watermark
    /\ lowerBoundWatermarkMap' = <<>>
    /\ workers' = [w \in Workers |-> IdleWorker]
    /\ bufferedPos' = row.binlog_pos
    /\ flushedPos' = row.binlog_pos
    /\ changes' = <<>>
    /\ deltaMap' = <<>>
    /\ deltaQueue' = <<>>

\* setup calls resumeFromCheckpoint. With no error the copier and the
\* replication client are those of the checkpoint and setup is over; with any
\* error setup logs it and does the initial steps of a fresh migration.
\* resumeFromCheckpoint sets r.migration.Checksum = true once the alter
\* statements have been compared equal, before it builds the copier.
SetupResume ==
    /\ runner.pc = "resumeFromCheckpoint"
    /\ IF resumeError = NilError
       THEN /\ resumeFromCheckpoint
            /\ runner' = [runner EXCEPT !.pc = "returned", !.ret = NilError,
                                        !.checksum = TRUE,
                                        !.usedResumeFromCheckpoint = TRUE]
            /\ UNCHANGED <<S, serverPos, useExperimentalBufferedMap, disableDeltaMap, txn, exec, checker, hashing, tableLock, mdl,
                           enableKeyAboveWatermark, maxValue, chunkSize, chunkTimingInfo, currentState, cut,
                           hist>>
       ELSE IF resumeError = OtherError("replClient.Run")
       THEN /\ ResumeAttemptFrom(checkpointTable[Len(checkpointTable)])
            /\ runner' = [runner EXCEPT !.pc = "createNewTable", !.resumeErr = resumeError,
                                        !.checksum = TRUE]
            /\ UNCHANGED <<S, binlogVars, useExperimentalBufferedMap, disableDeltaMap, txn, exec, checker, hashing, tableLock, mdl,
                           enableKeyAboveWatermark, maxValue, chunkSize, chunkTimingInfo, currentState, cut,
                           ckpt, hist>>
       ELSE /\ runner' = [runner EXCEPT !.pc = "createNewTable", !.resumeErr = resumeError]
            /\ UNCHANGED setupFrame
    /\ UNCHANGED <<shadow, checkpointTable>>

\* createNewTable: DROP TABLE IF EXISTS _t_new, CREATE TABLE _t_new LIKE t.
createNewTable ==
    /\ runner.pc = "createNewTable"
    /\ \/ /\ SetupReturn(errExec)
          /\ UNCHANGED shadow
       \/ /\ runner' = [runner EXCEPT !.pc = "returned", !.ret = errExec,
                                      !.newTableExists = FALSE,
                                      !.ddl = Append(@, DDL("DROP", "_new"))]
          /\ shadow' = EmptyTable
       \/ /\ runner' = [runner EXCEPT !.pc = "alterNewTable", !.newTableExists = TRUE,
                                      !.ddl = @ \o <<DDL("DROP", "_new"), DDL("CREATE", "_new")>>]
          /\ shadow' = EmptyTable
    /\ UNCHANGED <<setupFrame, checkpointTable>>

\* alterNewTable: ALTER TABLE _t_new <alter>.
alterNewTable ==
    /\ runner.pc = "alterNewTable"
    /\ \/ SetupReturn(errExec)
       \/ runner' = [runner EXCEPT !.pc = "createCheckpointTable",
                                   !.ddl = Append(@, DDL("ALTER", "_new"))]
    /\ UNCHANGED <<setupFrame, shadow, checkpointTable>>

\* createCheckpointTable: DROP TABLE IF EXISTS _t_chkpnt, CREATE TABLE _t_chkpnt.
createCheckpointTable ==
    /\ runner.pc = "createCheckpointTable"
    /\ \/ /\ SetupReturn(errExec)
          /\ UNCHANGED checkpointTable
       \/ /\ runner' = [runner EXCEPT !.pc = "returned", !.ret = errExec,
                                      !.cpTableExists = FALSE,
                                      !.ddl = Append(@, DDL("DROP", "_chkpnt"))]
          /\ checkpointTable' = <<>>
       \/ /\ runner' = [runner EXCEPT !.pc = "replClientRun", !.cpTableExists = TRUE,
                                      !.ddl = @ \o <<DDL("DROP", "_chkpnt"),
                                                     DDL("CREATE", "_chkpnt")>>]
          /\ checkpointTable' = <<>>
    /\ UNCHANGED <<setupFrame, shadow>>

\* A NewCopier that keeps the chunker it finds.
NewCopierKeepsChunker == UNCHANGED <<chunkPtr, watermark, lowerBoundWatermarkMap, workers>>

\* row.NewCopier of a fresh migration: a new chunker, nothing handed out.
NewCopier ==
    /\ chunkPtr' = MinKey
    /\ watermark' = NoWatermark
    /\ lowerBoundWatermarkMap' = <<>>
    /\ workers' = [w \in Workers |-> IdleWorker]

\* repl.NewClient of a fresh migration, with no SetPos: empty stores, and once
\* Run has started it the server's current position with nothing to read yet.
NewClient(started) ==
    /\ bufferedPos' = IF started THEN serverPos ELSE 0
    /\ flushedPos' = IF started THEN serverPos ELSE 0
    /\ binlog' = <<>>

\* The fresh migration's NewCopier, NewClient and replClient.Run.
SetupReplClientRun ==
    /\ runner.pc = "replClientRun"
    /\ NewCopier
    /\ changes' = <<>> /\ deltaMap' = <<>> /\ deltaQueue' = <<>>
    /\ \/ NewClient(FALSE) /\ SetupReturn(OtherError("replClient.Run"))
       \/ NewClient(TRUE) /\ SetupReturn(NilError)
    /\ UNCHANGED <<S, serverPos, useExperimentalBufferedMap, disableDeltaMap, txn, exec, checker, hashing, tableLock, mdl,
                   enableKeyAboveWatermark, maxValue, chunkSize, chunkTimingInfo, currentState, cut, ckpt,
                   hist, shadow, checkpointTable>>

\* ---------------------------------------------------------- Runner.Run
\* Run's steps after setup, each call with its two results; the copier, the
\* replication client's flush, the checker and CutOver.Run are taken as whole
\* calls here (their steps are the actions of the sections above).
errCanceled == OtherError("context canceled")

\* The error of a call that takes the context: the cancellation once the
\* context is done.
Failure == IF runner.ctxDone THEN errCanceled ELSE errExec

\* Variables no step of Run writes.
runFrame == <<serverPos, useExperimentalBufferedMap, changes, disableDeltaMap, txn, exec,
              checker, hashing, tableLock, mdl, deltaMap,
              deltaQueue, maxValue, lowerBoundWatermarkMap, chunkSize, chunkTimingInfo, workers, cut, ckpt,
              hist>>

\* The Runner r once Run has returned err: the deferred cancel() ends the
\* context Run derived for its goroutines.  r.done lists the calls of Run and
\* prepareForCutover that returned nil, r.returnedFrom the step Run returned
\* from (both history).
Returned(r, err) ==
    [r EXCEPT !.run = "returned", !.runRet = err, !.ctxDone = TRUE, !.returnedFrom = r.run,
              !.cancelledIn = IF r.ctxDone THEN @ ELSE currentState,
              !.rowsAtCancel = IF r.ctxDone THEN @ ELSE Len(checkpointTable)]

\* Run returns err.
RunReturn(err) == runner' = Returned(runner, err)

\* Run after setup: its error is returned; else the post-setup checks, the
\* start of dumpCheckpointContinuously and setCurrentState(stateCopyRows),
\* with the key-above-watermark callback setup has attached.
RunSetupReturned ==
    /\ runner.run = "setup" /\ runner.pc = "returned"
    /\ IF runner.ret # NilError
       THEN /\ RunReturn(runner.ret)
            /\ UNCHANGED <<currentState, enableKeyAboveWatermark>>
       ELSE \/ /\ RunReturn(OtherError("checks"))
               /\ UNCHANGED <<currentState, enableKeyAboveWatermark>>
            \/ /\ runner' = [runner EXCEPT !.run = "copyRows", !.checkpointer = "running",
                                           !.status = "running"]
               /\ currentState' = stateCopyRows
               /\ enableKeyAboveWatermark' = TRUE
    /\ UNCHANGED <<runFrame, tableVars, binlog, bufferedPos, flushedPos, chunkPtr, watermark,
                   checkpointTable>>

\* copier.Run: every chunk from the chunker's position to the end of the table
\* is copied with INSERT IGNORE; prepareForCutover then begins.
RunCopyRows ==
    /\ runner.run = "copyRows"
    /\ \/ /\ RunReturn(Failure)
          /\ UNCHANGED <<shadow, chunkPtr, watermark, currentState, enableKeyAboveWatermark>>
       \/ /\ ~runner.ctxDone
          /\ shadow' = InsertIgnore([lower |-> chunkPtr, upper |-> maxValue + 1], shadow, S)
          /\ chunkPtr' = maxValue + 1
          /\ watermark' = maxValue + 1
          /\ setCurrentState(stateApplyChangeset)
          /\ runner' = [runner EXCEPT !.run = "applyChangeset",
                                      !.done = Append(@, "copier.Run")]
    /\ UNCHANGED <<runFrame, S, binlog, bufferedPos, flushedPos, checkpointTable>>

\* replClient.Flush as one call: every event from the client's position on is
\* read and applied; the row of each changed key becomes what S holds.
FlushAll(sh) ==
    [k \in Keys |-> IF \E i \in (flushedPos + 1)..Len(hist.log) : hist.log[i].key = <<k>>
                    THEN S[k] ELSE sh[k]]

\* prepareForCutover: the flush of pending events.
RunApplyChangeset ==
    /\ runner.run = "applyChangeset"
    /\ \/ /\ RunReturn(Failure)
          /\ UNCHANGED <<shadow, binlog, bufferedPos, flushedPos, currentState,
                         enableKeyAboveWatermark>>
       \/ /\ ~runner.ctxDone
          /\ shadow' = FlushAll(shadow)
          /\ binlog' = <<>>
          /\ bufferedPos' = serverPos
          /\ flushedPos' = serverPos
          /\ setCurrentState(stateAnalyzeTable)
          /\ runner' = [runner EXCEPT !.run = "analyze", !.done = Append(@, "Flush")]
    /\ UNCHANGED <<runFrame, S, chunkPtr, watermark, checkpointTable>>

\* prepareForCutover reads the configured setting, not r.migration.Checksum.
ChecksumAsConfigured == runner.start.checksum

\* prepareForCutover: if r.migration.Checksum.
ChecksumEnabled == runner.checksum

\* A prepareForCutover that goes on when ANALYZE TABLE has failed.
RunAnalyzeTableErrorIgnored ==
    /\ runner.run = "analyze"
    /\ \/ /\ runner' = [runner EXCEPT !.run = "cutover"]
          /\ UNCHANGED <<currentState, enableKeyAboveWatermark>>
       \/ /\ ~runner.ctxDone
          /\ runner' = [runner EXCEPT !.run = "cutover", !.done = Append(@, "ANALYZE TABLE")]
          /\ UNCHANGED <<currentState, enableKeyAboveWatermark>>
    /\ UNCHANGED <<runFrame, tableVars, binlog, bufferedPos, flushedPos, chunkPtr, watermark,
                   checkpointTable>>

\* prepareForCutover: ANALYZE TABLE, then the checksum if it is enabled;
\* r.checksum begins with setCurrentState(stateChecksum).
RunAnalyzeTable ==
    /\ runner.run = "analyze"
    /\ \/ /\ RunReturn(Failure)
          /\ UNCHANGED <<currentState, enableKeyAboveWatermark>>
       \/ /\ ~runner.ctxDone
          /\ IF ChecksumEnabled
             THEN /\ setCurrentState(stateChecksum)
                  /\ runner' = [runner EXCEPT !.run = "checksum",
                                              !.done = Append(@, "ANALYZE TABLE")]
             ELSE /\ runner' = [runner EXCEPT !.run = "cutover",
                                              !.done = Append(@, "ANALYZE TABLE")]
                  /\ UNCHANGED <<currentState, enableKeyAboveWatermark>>
    /\ UNCHANGED <<runFrame, tableVars, binlog, bufferedPos, flushedPos, chunkPtr, watermark,
                   checkpointTable>>

\* r.checksum after setCurrentState(stateChecksum): r.checker, err =
\* checksum.NewChecker(...); its error is returned, r.checker then being nil.
RunNewChecker ==
    /\ runner.run = "checksum"
    /\ \/ RunReturn(OtherError("NewChecker"))
       \/ runner' = [runner EXCEPT !.run = "checker.Run", !.checkerAssigned = TRUE]
    /\ UNCHANGED <<runFrame, tableVars, binlog, bufferedPos, flushedPos, chunkPtr, watermark,
                   checkpointTable, currentState, enableKeyAboveWatermark>>

\* r.checksum: checker.Run returns an error when the tables differ (no
\* FixDifferences in the Runner's CheckerConfig); after a pass,
\* setCurrentState(statePostChecksum) and one more flush.
RunChecksum ==
    /\ runner.run = "checker.Run"
    /\ \/ /\ RunReturn(Failure)
          /\ UNCHANGED <<currentState, enableKeyAboveWatermark>>
       \/ /\ ~runner.ctxDone /\ shadow # S
          /\ RunReturn(OtherError("checksum mismatch"))
          /\ UNCHANGED <<currentState, enableKeyAboveWatermark>>
       \/ /\ ~runner.ctxDone /\ shadow = S
          /\ setCurrentState(statePostChecksum)
          /\ \/ runner' = [runner EXCEPT !.run = "cutover", !.checksumPassed = TRUE,
                                           !.done = @ \o <<"checksum", "Flush">>]
             \/ runner' = Returned([runner EXCEPT !.checksumPassed = TRUE,
                                                  !.done = Append(@, "checksum")], errExec)
    /\ UNCHANGED <<runFrame, tableVars, binlog, bufferedPos, flushedPos, chunkPtr, watermark,
                   checkpointTable>>

\* Run: the cutover checks, setCurrentState(stateCutOver), NewCutOver.
RunCutOver ==
    /\ runner.run = "cutover"
    /\ \/ /\ RunReturn(OtherError("checks"))
          /\ UNCHANGED <<currentState, enableKeyAboveWatermark>>
       \/ /\ setCurrentState(stateCutOver)
          /\ runner' = [runner EXCEPT !.run = "dropOldTable"]
    /\ UNCHANGED <<runFrame, tableVars, binlog, bufferedPos, flushedPos, chunkPtr, watermark,
                   checkpointTable>>

\* Run: dropOldTable before the rename.
RunDropOldTable ==
    /\ runner.run = "dropOldTable"
    /\ \/ RunReturn(Failure)
       \/ /\ ~runner.ctxDone
          /\ runner' = [runner EXCEPT !.run = "cutoverRun", !.oldTableExists = FALSE,
                                      !.ddl = Append(@, DDL("DROP", "_old"))]
    /\ UNCHANGED <<runFrame, tableVars, binlog, bufferedPos, flushedPos, chunkPtr, watermark,
                   checkpointTable, currentState, enableKeyAboveWatermark>>

\* cutover.Run: RENAME TABLE t TO _t_old, _t_new TO t, or an error.
RunCutOverRun ==
    /\ runner.run = "cutoverRun"
    /\ \/ /\ RunReturn(Failure)
          /\ UNCHANGED tableVars
       \/ /\ ~runner.ctxDone
          /\ S' = shadow
          /\ shadow' = EmptyTable
          /\ runner' = [runner EXCEPT !.run = "cleanup", !.oldTableExists = TRUE,
                                      !.newTableExists = FALSE,
                                      !.ddl = Append(@, DDL("RENAME", "_old"))]
    /\ UNCHANGED <<runFrame, binlog, bufferedPos, flushedPos, chunkPtr, watermark,
                   checkpointTable, currentState, enableKeyAboveWatermark>>

\* cleanup: DROP TABLE IF EXISTS _t_new, then dropCheckpoint; Run returns
\* what cleanup returns.
cleanup ==
    /\ runner.run = "cleanup"
    /\ \/ /\ RunReturn(Failure)
          /\ UNCHANGED checkpointTable
       \/ /\ ~runner.ctxDone
          /\ runner' = Returned([runner EXCEPT !.newTableExists = FALSE,
                                               !.ddl = Append(@, DDL("DROP", "_new"))],
                                errExec)
          /\ UNCHANGED checkpointTable
       \/ /\ ~runner.ctxDone
          /\ runner' = Returned([runner EXCEPT !.newTableExists = FALSE,
                                               !.cpTableExists = FALSE,
                                               !.ddl = @ \o <<DDL("DROP", "_new"),
                                                              DDL("DROP", "_chkpnt")>>],
                                NilError)
          /\ checkpointTable' = <<>>
    /\ UNCHANGED <<runFrame, tableVars, binlog, bufferedPos, flushedPos, chunkPtr, watermark,
                   currentState, enableKeyAboveWatermark>>

\* The caller cancels the context of a Run that is past setup and has not
\* returned.
Cancel ==
    /\ runner.run \notin {"setup", "returned", "panicked", "nilPanic"}
    /\ ~runner.ctxDone
    /\ runner' = [runner EXCEPT !.ctxDone = TRUE, !.cancelledIn = currentState,
                                !.rowsAtCancel = Len(checkpointTable)]
    /\ UNCHANGED <<runFrame, tableVars, binlog, bufferedPos, flushedPos, chunkPtr, watermark,
                   checkpointTable, currentState, enableKeyAboveWatermark>>

\* dumpCheckpointContinuously: one pass of the select. On ctx.Done it returns;
\* on a tick it returns from stateCutOver on, else it goes on to call
\* dumpCheckpoint.  With the context done and a tick pending the select takes
\* either case.
dumpCheckpointContinuously ==
    /\ runner.checkpointer = "running"
    /\ runner.run \notin {"panicked", "nilPanic"}
    /\ \/ /\ runner.ctxDone
          /\ runner' = [runner EXCEPT !.checkpointer = "stopped"]
       \/ /\ currentState >= stateCutOver
          /\ runner' = [runner EXCEPT !.checkpointer = "stopped"]
       \/ /\ currentState < stateCutOver
          /\ Len(checkpointTable) < MaxCheckpoints
          /\ runner' = [runner EXCEPT !.checkpointer = "dumpCheckpoint"]
    /\ UNCHANGED <<runFrame, tableVars, binlog, bufferedPos, flushedPos, chunkPtr, watermark,
                   checkpointTable, currentState, enableKeyAboveWatermark>>

\* dumpCheckpoint called from the tick: the INSERT into the checkpoint table,
\* or an error (no low watermark yet, or the INSERT failing, as it does with a
\* cancelled context or a dropped table) that is logged.
\* runner.lateCheckpoint records a row written from stateCutOver on (history).
dumpCheckpoint ==
    /\ runner.checkpointer = "dumpCheckpoint"
    /\ runner.run \notin {"panicked", "nilPanic"}
    /\ IF ~GetLowWatermarkErr /\ ~runner.ctxDone /\ runner.cpTableExists
       THEN /\ checkpointTable' = Append(checkpointTable,
                  [low_watermark |-> watermark, binlog_pos |-> GetBinlogApplyPosition,
                   alter_statement |-> runner.alter])
            /\ runner' = [runner EXCEPT !.checkpointer = "running",
                                        !.lateCheckpoint = @ \/ currentState >= stateCutOver]
       ELSE /\ runner' = [runner EXCEPT !.checkpointer = "running"]
            /\ UNCHANGED checkpointTable
    /\ UNCHANGED <<runFrame, tableVars, binlog, bufferedPos, flushedPos, chunkPtr, watermark,
                   currentState, enableKeyAboveWatermark>>

\* dumpStatus: one pass of the select.  On ctx.Done it returns; on a tick it
\* returns past stateCutOver, and in stateChecksum it calls
\* r.checker.RecentValue() and reads r.checker.StartTime, a nil pointer
\* dereference while r.checker is not assigned; the other states read
\* objects that setup created.
dumpStatus ==
    /\ runner.status = "running"
    /\ runner.run \notin {"panicked", "nilPanic"}
    /\ \/ /\ runner.ctxDone
          /\ runner' = [runner EXCEPT !.status = "stopped"]
       \/ /\ currentState > stateCutOver
          /\ runner' = [runner EXCEPT !.status = "stopped"]
       \/ /\ currentState = stateChecksum
          /\ IF runner.checkerAssigned
             THEN runner' = [runner EXCEPT !.status = "running"]
             ELSE runner' = [runner EXCEPT !.status = "nilPanic", !.run = "nilPanic"]
    /\ UNCHANGED <<runFrame, tableVars, binlog, bufferedPos, flushedPos, chunkPtr, watermark,
                   checkpointTable, currentState, enableKeyAboveWatermark>>

\* The effect of a notification the Runner acts on: setCurrentState(
\* stateErrCleanup), dropCheckpoint, whose error is only logged, and the panic.
ErrCleanupAndPanic ==
    /\ setCurrentState(stateErrCleanup)
    /\ \/ /\ runner' = [runner EXCEPT !.run = "panicked", !.notifications = @ + 1,
                                      !.cpTableExists = FALSE,
                                      !.ddl = Append(@, DDL("DROP", "_chkpnt"))]
          /\ checkpointTable' = <<>>
       \/ /\ runner' = [runner EXCEPT !.run = "panicked", !.notifications = @ + 1,
                                      !.ddl = Append(@, DDL("DROP failed", "_chkpnt"))]
          /\ UNCHANGED checkpointTable

\* A notification that is ignored only past stateCutOver.
tableChangeNotificationPastCutOver ==
    /\ runner.run \notin {"setup", "panicked", "nilPanic"}
    /\ runner.notifications < MaxNotifications
    /\ IF currentState > stateCutOver
       THEN /\ runner' = [runner EXCEPT !.notifications = @ + 1]
            /\ UNCHANGED <<currentState, enableKeyAboveWatermark, checkpointTable>>
       ELSE ErrCleanupAndPanic
    /\ UNCHANGED <<runFrame, tableVars, binlog, bufferedPos, flushedPos, chunkPtr, watermark>>

\* Runner.tableChangeNotification, the callback setup attaches to the
\* replication client: ignored from stateCutOver on.
tableChangeNotification ==
    /\ runner.run \notin {"setup", "panicked", "nilPanic"}
    /\ runner.notifications < MaxNotifications
    /\ IF currentState >= stateCutOver
       THEN /\ runner' = [runner EXCEPT !.notifications = @ + 1]
            /\ UNCHANGED <<currentState, enableKeyAboveWatermark, checkpointTable>>
       ELSE ErrCleanupAndPanic
    /\ UNCHANGED <<runFrame, tableVars, binlog, bufferedPos, flushedPos, chunkPtr, watermark>>

\* ------------------------------------- chunker: dynamic chunk sizing
\* Constants of pkg/table/chunker.go.  Durations are in milliseconds and
\* MaxDynamicStepFactor (1.5) is kept as the integer 2 * 1.5.
StartingChunkSize == 1000
MaxDynamicStepFactorX2 == 3
MinDynamicRowSize == 10
MaxDynamicRowSize == 100000
DynamicPanicFactor == 5
ChunkerDefaultTarget == 100

\* Samples aggregated before chunks faster than half the target recompute.
ChunkTimingWindow == 10

\* Durations a chunk can report: two below half the target, one between half
\* the target and the target, one above the target, one just below the panic
\* threshold, the threshold itself and one beyond it.
Durations == {10, 49, 60, 150, 499, 500, 1000}

\* p90 of the buffered samples (nearest rank).
P90(samples) ==
    LET n    == Len(samples)
        rank == (9 * n + 9) \div 10
        AtMost(v) == Cardinality({i \in 1..n : samples[i] <= v})
    IN  CHOOSE v \in Range(samples) :
            /\ AtMost(v) >= rank
            /\ \A u \in Range(samples) : AtMost(u) >= rank => v <= u

\* The clamp to [MinDynamicRowSize, MaxDynamicRowSize] alone.
boundaryCheckNoStepCap(size, newSize) ==
    Max(MinDynamicRowSize, Min(MaxDynamicRowSize, newSize))

\* newSize = currentSize * (target / observed), growth capped at 1.5x, then
\* clamped to [MinDynamicRowSize, MaxDynamicRowSize].
boundaryCheckTargetChunkSize(size, newSize) ==
    LET capped == Min(newSize, (size * MaxDynamicStepFactorX2) \div 2)
    IN  Max(MinDynamicRowSize, Min(MaxDynamicRowSize, capped))

calculateNewTargetChunkSize(size, observed) ==
    boundaryCheckTargetChunkSize(size, (size * ChunkerDefaultTarget) \div observed)

\* Feedback's sizing half for one chunk that took d milliseconds.
updateChunkerTarget(d) ==
    /\ currentState = stateCopyRows
    /\ hist.feedback.n < MaxFeedbacks
    /\ hist' = [hist EXCEPT !.feedback = [d |-> d, n |-> @.n + 1]]
    /\ IF d >= DynamicPanicFactor * ChunkerDefaultTarget
       THEN /\ chunkSize' = Max(MinDynamicRowSize, chunkSize \div 2)
            /\ chunkTimingInfo' = <<>>
       ELSE IF 2 * d >= ChunkerDefaultTarget
       THEN /\ chunkSize' = calculateNewTargetChunkSize(chunkSize, d)
            /\ chunkTimingInfo' = <<>>
       ELSE IF Len(chunkTimingInfo) + 1 < ChunkTimingWindow
       THEN /\ chunkTimingInfo' = Append(chunkTimingInfo, d)
            /\ UNCHANGED chunkSize
       ELSE /\ chunkSize' = calculateNewTargetChunkSize(chunkSize,
                                                        P90(Append(chunkTimingInfo, d)))
            /\ chunkTimingInfo' = <<>>
    /\ UNCHANGED <<tableVars, binlogVars, replVars, maxValue, chunkPtr, watermark,
                   lowerBoundWatermarkMap, workers, currentState, cut, ckptVars>>

\* ------------------------------------- one flush, statement by statement
\* subscription.flushDeltaQueue / flushDeltaMap and bufferedMap.Flush from the
\* statements they built to their return.  The subscription's mutex is held
\* throughout, so the store does not change under the flush.
\*   exec.stmts    the statements built
\*   exec.next     index of the next statement to hand out
\*   exec.running  statements in a goroutine of the errgroup
\*   exec.log      each execution begun: [i, via], via the connection used
\*   exec.err      some execution returned an error
\*   exec.n        flushes begun; exec.store the store when this one began and
\*                 exec.prev the flush before it (history)
\*   exec.call     a call of keyHasChanged: at its Lock or returned; `during`
\*                 is the flush that was running when it began and `inFlush`
\*                 whether a flush was running when it recorded (history)

\* The hashed keys a statement names.
StmtKeys(stmt) ==
    Range(stmt.keys) \cup {HashKey(<<stmt.rows[i][1]>>) : i \in 1..Len(stmt.rows)}

\* errgroup.Group.Go with SetLimit(concurrency): blocks while the limit is reached.
GoAdmitsAlways(running) == TRUE

GoAdmits(running) == Cardinality(running) < Concurrency

\* `if underLock`: the statements go to the lock's connection.
NeverOnLockConnection(underLock) == FALSE

OnLockConnection(underLock) == underLock

\* The hashed keys of a store <<changes, deltaMap, deltaQueue>>.
StoreKeysAt(store) ==
    DOMAIN store[1] \cup DOMAIN store[2] \cup {store[3][i].key : i \in DOMAIN store[3]}

\* A subscription no flush of which has begun and with no call in progress.
IdleExec ==
    [pc |-> "none", underLock |-> FALSE, stmts |-> <<>>, next |-> 1, running |-> {},
     log |-> <<>>, err |-> FALSE, n |-> 0, store |-> <<<<>>, <<>>, <<>>>>,
     prev |-> [failed |-> FALSE, keys |-> {}], calls |-> 0,
     call |-> [pc |-> "none", key |-> MinKey, deleted |-> FALSE, during |-> 0,
               inFlush |-> FALSE]]

execFrame == <<S, binlogVars, bufferedPos, flushedPos, useExperimentalBufferedMap,
               disableDeltaMap, txn, runner, checker, hashing, tableLock, mdl, enableKeyAboveWatermark,
               chunkerVars, workers, currentState, cut, ckptVars, hist>>

\* The statement-building loop: the caller holds the table lock or not.
FlushBegin ==
    /\ exec.pc \in {"none", "returned"}
    /\ exec.n < MaxFlushes
    /\ \E order \in Perms(IF disableDeltaMap THEN {} ELSE StoreKeys) :
          exec' = [exec EXCEPT
                     !.pc = "running", !.underLock = cut.lock, !.stmts = FlushStmts(order),
                     !.next = 1, !.running = {}, !.log = <<>>, !.err = FALSE,
                     !.n = @ + 1, !.store = <<changes, deltaMap, deltaQueue>>,
                     !.prev = [failed |-> exec.pc = "returned" /\ exec.err,
                               keys |-> StoreKeysAt(exec.store)]]
    /\ UNCHANGED <<execFrame, shadow, changes, deltaMap, deltaQueue>>

\* s.Lock() of keyHasChanged / HasChanged: the mutex is free when no flush of
\* the subscription is between its Lock and its deferred Unlock.
MutexIgnored == TRUE

MutexFree == exec.pc # "running"

\* The replication client calls keyHasChanged(key, deleted) (HasChanged on a
\* bufferedMap) for a row event; the call begins with s.Lock().
CallKeyHasChanged ==
    /\ exec.pc # "none"
    /\ exec.call.pc = "none"
    /\ exec.calls < MaxChanges
    /\ \E k \in Keys, deleted \in BOOLEAN :
          exec' = [exec EXCEPT !.calls = @ + 1,
                               !.call = [pc |-> "Lock", key |-> k, deleted |-> deleted,
                                         during |-> IF exec.pc = "running" THEN exec.n ELSE 0,
                                         inFlush |-> FALSE]]
    /\ UNCHANGED <<execFrame, shadow, changes, deltaMap, deltaQueue>>

\* The call has the mutex: the change is recorded and the mutex released.
LockedKeyHasChanged ==
    /\ exec.call.pc = "Lock"
    /\ MutexFree
    /\ exec' = [exec EXCEPT !.call.pc = "returned",
                             !.call.inFlush = (exec.pc = "running")]
    /\ IF useExperimentalBufferedMap
       THEN /\ HasChanged(<<exec.call.key>>, <<exec.call.key, 3>>, exec.call.deleted)
            /\ UNCHANGED <<deltaMap, deltaQueue>>
       ELSE /\ keyHasChanged(<<exec.call.key>>, exec.call.deleted)
            /\ UNCHANGED changes
    /\ UNCHANGED <<execFrame, shadow>>

\* TableLock.ExecUnderLock, one turn of its loop: an empty statement is
\* skipped, any other runs on lockTxn; the first error is returned.
ExecUnderLock ==
    /\ exec.pc = "running"
    /\ OnLockConnection(exec.underLock)
    /\ exec.running = {}
    /\ exec.next <= Len(exec.stmts)
    /\ LET i == exec.next
       IN  IF IsEmptyStmt(exec.stmts[i])
           THEN /\ exec' = [exec EXCEPT !.next = i + 1]
                /\ UNCHANGED shadow
           ELSE \/ /\ exec' = [exec EXCEPT !.next = i + 1,
                                           !.log = Append(@, [i |-> i, via |-> "lockTxn"])]
                   /\ shadow' = ExecStmt(exec.stmts[i], shadow, S)
                \/ /\ exec' = [exec EXCEPT !.pc = "returned", !.err = TRUE,
                                           !.log = Append(@, [i |-> i, via |-> "lockTxn"])]
                   /\ UNCHANGED shadow
    /\ UNCHANGED <<execFrame, changes, deltaMap, deltaQueue>>

\* flushDeltaQueue outside the lock: one RetryableTransaction on the pool runs
\* every statement in order, and commits all of them or none.
QueueTransaction ==
    /\ exec.pc = "running"
    /\ ~OnLockConnection(exec.underLock)
    /\ disableDeltaMap /\ ~useExperimentalBufferedMap
    /\ exec.next <= Len(exec.stmts)
    /\ \E ok \in BOOLEAN :
          /\ exec' = [exec EXCEPT
                        !.next = Len(exec.stmts) + 1, !.err = ~ok,
                        !.log = [i \in 1..Len(exec.stmts) |-> [i |-> i, via |-> "db"]]]
          /\ shadow' = IF ok THEN ExecStmts(exec.stmts, 1..Len(exec.stmts), Len(exec.stmts),
                                            shadow, S)
                       ELSE shadow
    /\ UNCHANGED <<execFrame, changes, deltaMap, deltaQueue>>

\* The maps outside the lock, g.Go: the next statement gets a goroutine that
\* runs it in a RetryableTransaction of its own on the pool.
Go ==
    /\ exec.pc = "running"
    /\ ~OnLockConnection(exec.underLock)
    /\ ~(disableDeltaMap /\ ~useExperimentalBufferedMap)
    /\ exec.next <= Len(exec.stmts)
    /\ GoAdmits(exec.running)
    /\ exec' = [exec EXCEPT !.next = @ + 1, !.running = @ \cup {exec.next},
                            !.log = Append(@, [i |-> exec.next, via |-> "db"])]
    /\ UNCHANGED <<execFrame, shadow, changes, deltaMap, deltaQueue>>

\* A goroutine's transaction commits or fails, and the goroutine ends.
GoReturns ==
    /\ exec.pc = "running"
    /\ \E i \in exec.running, ok \in BOOLEAN :
          /\ exec' = [exec EXCEPT !.running = @ \ {i}, !.err = @ \/ ~ok]
          /\ shadow' = IF ok THEN ExecStmt(exec.stmts[i], shadow, S) ELSE shadow
    /\ UNCHANGED <<execFrame, changes, deltaMap, deltaQueue>>

\* Every statement handed out and g.Wait over: an error is returned with the
\* store as it was, otherwise the store is emptied.
FlushEndClearsAlways ==
    /\ exec.pc = "running"
    /\ exec.next > Len(exec.stmts)
    /\ exec.running = {}
    /\ exec' = [exec EXCEPT !.pc = "returned"]
    /\ changes' = <<>>
    /\ deltaMap' = <<>>
    /\ deltaQueue' = <<>>
    /\ UNCHANGED <<execFrame, shadow>>

FlushEnd ==
    /\ exec.pc = "running"
    /\ exec.next > Len(exec.stmts)
    /\ exec.running = {}
    /\ exec' = [exec EXCEPT !.pc = "returned"]
    /\ IF exec.err
       THEN UNCHANGED <<changes, deltaMap, deltaQueue>>
       ELSE /\ changes' = <<>>
            /\ deltaMap' = <<>>
            /\ deltaQueue' = <<>>
    /\ UNCHANGED <<execFrame, shadow>>

\* ------------------------------------------- HashKey and UnhashKey
\* A key column's value is [int |-> n] or [str |-> s], s a string.
\* fmt.Sprintf("%v", v): the decimal digits of an integer, a string as it is.
Sprintf_any(v) == IF "int" \in DOMAIN v THEN Sprintf_v(v.int) ELSE v.str

\* Column values of the second key of a pair.
OtherKeyValues ==
    {[int |-> n] : n \in {0, 12}} \cup
    {[str |-> s] : s \in {<<>>, <<"a">>, <<"-", "#", "-">>}}

\* utils.HashKey of a key of such values.
HashAnyKey(key) == Join([i \in 1..Len(key) |-> Sprintf_any(key[i])], PrimaryKeySeparator)

HasPrefix(s, prefix) == Len(s) >= Len(prefix) /\ SubSeq(s, 1, Len(prefix)) = prefix

\* strings.Split(s, sep), sep not empty: cut at each occurrence of sep, found
\* from the left without overlap.
RECURSIVE Split(_, _)
Split(s, sep) ==
    LET hits == {i \in 1..Len(s) : HasPrefix(SubSeq(s, i, Len(s)), sep)}
    IN  IF hits = {} THEN <<s>>
        ELSE LET i == CHOOSE x \in hits : \A y \in hits : x <= y
             IN  <<SubSeq(s, 1, i - 1)>> \o Split(SubSeq(s, i + Len(sep), Len(s)), sep)

\* sqlescape.EscapeString: a backslash before a quote or a backslash.
RECURSIVE EscapeString(_)
EscapeString(s) ==
    IF s = <<>> THEN <<>>
    ELSE (IF Head(s) \in {"'", "\\"} THEN <<"\\", Head(s)>> ELSE <<Head(s)>>)
         \o EscapeString(Tail(s))

Quote(s) == <<"'">> \o EscapeString(s) \o <<"'">>

\* utils.UnhashKey
UnhashKey(key) ==
    LET str == Split(key, PrimaryKeySeparator)
    IN  IF Len(str) = 1 THEN Quote(str[1])
        ELSE <<"(">> \o Join([i \in 1..Len(str) |-> Quote(str[i])], <<",">>) \o <<")">>

hashingFrame == <<tableVars, binlogVars, bufferedPos, flushedPos, useExperimentalBufferedMap,
                  changes, disableDeltaMap, txn, runner, exec, checker, tableLock, mdl, deltaMap, deltaQueue,
                  enableKeyAboveWatermark, chunkerVars, workers, currentState, cut, ckptVars,
                  hist>>

\* hashed := HashKey(key)
CallHashKey ==
    /\ hashing.pc = "key"
    /\ hashing' = [hashing EXCEPT !.pc = "hashed", !.hashed = HashAnyKey(hashing.key)]
    /\ UNCHANGED hashingFrame

\* keyHasChanged hashes the key of another row of the same table: as many
\* columns, each of the type of the same column of the first key.
CallHashKeyOther ==
    /\ hashing.pc = "hashed"
    /\ \E other \in [1..Len(hashing.key) -> OtherKeyValues] :
          /\ \A i \in 1..Len(other) : DOMAIN other[i] = DOMAIN hashing.key[i]
          /\ hashing' = [hashing EXCEPT !.pc = "hashedBoth", !.other = other,
                                        !.otherHashed = HashAnyKey(other)]
    /\ UNCHANGED hashingFrame

\* unhashed := UnhashKey(hashed)
CallUnhashKey ==
    /\ hashing.pc = "hashed"
    /\ hashing' = [hashing EXCEPT !.pc = "unhashed", !.unhashed = UnhashKey(hashing.hashed)]
    /\ UNCHANGED hashingFrame

\* ------------------------------------------------- checksum.Checker
\* checker: [pc, FixDifferences, runs, ptr, differencesFound, err, differed, afterPass,
\*           repaired]
\*   ptr       lower bound of the next chunk to compare
\*   differed  the keys at which the tables differed when Run began (history)
\*   afterPass this Run follows a Run that returned nil (history)
\*   repaired  rows copied again by this and earlier Runs (history)
ErrChecksumMismatch == OtherError("checksum mismatch")

DivergentRows(lo, hi) == {k \in Keys : lo <= k /\ k < hi /\ S[k] # shadow[k]}

\* A repair that leaves the chunk as it is.
replaceChunkNothing(sh, lo, hi) == sh

\* The chunk of the new table is deleted and copied again from the table.
replaceChunk(sh, lo, hi) == [k \in Keys |-> IF lo <= k /\ k < hi THEN S[k] ELSE sh[k]]

checkerFrame == <<S, binlogVars, bufferedPos, flushedPos, useExperimentalBufferedMap, changes,
                  disableDeltaMap, txn, runner, exec, hashing, tableLock, mdl, deltaMap, deltaQueue,
                  enableKeyAboveWatermark, chunkerVars, workers, currentState, cut, ckptVars,
                  hist>>

\* NewChecker and the start of Run: no difference found yet, the chunker at
\* the first key.
NewChecker ==
    /\ checker.pc \in {"new", "returned"}
    /\ checker.runs < MaxChecksumRuns
    /\ checker' = [checker EXCEPT !.pc = "run", !.runs = @ + 1, !.ptr = MinKey,
                                  !.differencesFound = 0, !.err = NilError,
                                  !.differed = DivergentRows(MinKey, NumKeys + 1),
                                  !.afterPass = (checker.pc = "returned" /\ checker.err = NilError)]
    /\ UNCHANGED <<checkerFrame, shadow>>

\* One chunk: both sides' checksums are compared.  On a mismatch the run
\* fails, or with FixDifferences counts the divergent rows and copies the
\* chunk again.  A statement can fail with an error of its own.
ChecksumChunk ==
    /\ checker.pc = "run"
    /\ checker.ptr <= NumKeys
    /\ LET lo == checker.ptr
           hi == checker.ptr + 1
           n  == Cardinality(DivergentRows(lo, hi))
       IN  \/ /\ checker' = [checker EXCEPT !.pc = "returned", !.err = errExec]
              /\ UNCHANGED shadow
           \/ /\ n = 0
              /\ checker' = [checker EXCEPT !.ptr = hi]
              /\ UNCHANGED shadow
           \/ /\ n > 0 /\ ~checker.FixDifferences
              /\ checker' = [checker EXCEPT !.pc = "returned", !.err = ErrChecksumMismatch]
              /\ UNCHANGED shadow
           \/ /\ n > 0 /\ checker.FixDifferences
              /\ checker' = [checker EXCEPT !.ptr = hi, !.differencesFound = @ + n,
                                            !.repaired = @ + n]
              /\ shadow' = replaceChunk(shadow, lo, hi)
    /\ UNCHANGED checkerFrame

\* Every chunk compared: Run returns nil.
ChecksumDone ==
    /\ checker.pc = "run"
    /\ checker.ptr > NumKeys
    /\ checker' = [checker EXCEPT !.pc = "returned"]
    /\ UNCHANGED <<checkerFrame, shadow>>

\* ------------------------------------- specification: the chunker alone
InitChunkerOnly ==
    /\ InitTables
    /\ InitRepl({FALSE}, {FALSE})
    /\ InitChunker(ChunkerKeys, {1, 2})
    /\ currentState = stateCopyRows
    /\ InitCutOver
    /\ InitCheckpointer
    /\ txn = NoTxn
    /\ runner = NoSetup
    /\ exec = NoExec
    /\ checker = NoChecker
    /\ hashing = NoHashing
    /\ tableLock = NoTableLock
    /\ mdl = NoMetadataLock
    /\ hist = InitHist(S)

NextChunkerOnly == \E w \in Workers : Next(w) \/ CopyChunk(w) \/ Feedback(w)

SpecChunker == InitChunkerOnly /\ [][NextChunkerOnly]_vars

\* ------------------------------- specification: the chunk size under feedback
InitSizing ==
    /\ S = [k \in Keys |-> InitialRow]
    /\ shadow = EmptyTable
    /\ InitRepl({FALSE}, {FALSE})
    /\ InitChunker(ChunkerKeys, {MinDynamicRowSize, StartingChunkSize, MaxDynamicRowSize})
    /\ currentState = stateCopyRows
    /\ InitCutOver
    /\ InitCheckpointer
    /\ txn = NoTxn
    /\ runner = NoSetup
    /\ exec = NoExec
    /\ checker = NoChecker
    /\ hashing = NoHashing
    /\ tableLock = NoTableLock
    /\ mdl = NoMetadataLock
    /\ hist = InitHist(S)

NextSizing == \E d \in Durations : updateChunkerTarget(d)

SpecSizing == InitSizing /\ [][NextSizing]_vars

\* ------------------------------- specification: a migration to its cutover
InitMigration ==
    /\ InitTables
    /\ InitRepl({FALSE}, BOOLEAN)
    /\ InitChunker(NumKeys, {1})
    /\ currentState = stateInitial
    /\ InitCutOver
    /\ InitCheckpointer
    /\ txn = NoTxn
    /\ runner = NoSetup
    /\ exec = NoExec
    /\ checker = NoChecker
    /\ hashing = NoHashing
    /\ tableLock = NoTableLock
    /\ mdl = NoMetadataLock
    /\ hist = InitHist(S)

NextMigration ==
    \/ \E k \in Keys, deleted \in BOOLEAN : Write(k, deleted, MaxEvents)
    \/ ReceiveEvent
    \/ Flush
    \/ StartCopyRows
    \/ \E w \in Workers : Next(w) \/ CopyChunk(w) \/ Feedback(w)
    \/ CopyRowsComplete
    \/ ApplyChangeset
    \/ AnalyzeTable
    \/ CutOverFlush
    \/ NewTableLock
    \/ FlushUnderTableLock
    \/ BlockWait
    \/ FinalFlushUnderTableLock
    \/ RenameUnderLock

Spec == InitMigration /\ [][NextMigration]_vars

\* ------------------------ specification: the copy phase with checkpoints
InitCheckpoint ==
    /\ S = [k \in Keys |-> InitialRow]
    /\ shadow = EmptyTable
    /\ binlog = <<>>
    /\ serverPos = 0
    /\ bufferedPos = 0
    /\ flushedPos = 0
    /\ useExperimentalBufferedMap = FALSE
    /\ changes = <<>>
    /\ disableDeltaMap = FALSE
    /\ deltaMap = <<>>
    /\ deltaQueue = <<>>
    /\ enableKeyAboveWatermark = TRUE
    /\ InitChunker(NumKeys, {1})
    /\ currentState = stateCopyRows
    /\ InitCutOver
    /\ InitCheckpointer
    /\ txn = NoTxn
    /\ runner = NoSetup
    /\ exec = NoExec
    /\ checker = NoChecker
    /\ hashing = NoHashing
    /\ tableLock = NoTableLock
    /\ mdl = NoMetadataLock
    /\ hist = InitHist(S)

NextCheckpoint ==
    \/ \E k \in Keys, deleted \in BOOLEAN : Write(k, deleted, MaxEvents)
    \/ ReceiveEvent
    \/ Flush
    \/ \E w \in Workers : Next(w) \/ CopyChunk(w) \/ Feedback(w)
    \/ DumpReadPosition
    \/ DumpReadLowWatermark
    \/ DumpInsert

SpecCheckpoint == InitCheckpoint /\ [][NextCheckpoint]_vars

\* ------------------------------- specification: the copy, killed and resumed
InitResume ==
    /\ InitTables
    /\ InitRepl({FALSE}, {FALSE})
    /\ InitChunker(ChunkerKeys, {1})
    /\ currentState = stateCopyRows
    /\ InitCutOver
    /\ InitCheckpointer
    /\ txn = NoTxn
    /\ runner = NoSetup
    /\ exec = NoExec
    /\ checker = NoChecker
    /\ hashing = NoHashing
    /\ tableLock = NoTableLock
    /\ mdl = NoMetadataLock
    /\ hist = InitHist(S)

NextResume ==
    \/ \E w \in Workers : Next(w) \/ CopyChunk(w) \/ Feedback(w)
    \/ DumpReadPosition
    \/ DumpReadLowWatermark
    \/ DumpInsert
    \/ Resume

SpecResume == InitResume /\ [][NextResume]_vars

\* --------------------------------- specification: the delta stores alone
InitDelta ==
    /\ InitTables
    /\ InitRepl(BOOLEAN, BOOLEAN)
    /\ InitChunker(NumKeys, {1})
    /\ currentState = stateInitial
    /\ InitCutOver
    /\ InitCheckpointer
    /\ txn = NoTxn
    /\ runner = NoSetup
    /\ exec = NoExec
    /\ checker = NoChecker
    /\ hashing = NoHashing
    /\ tableLock = NoTableLock
    /\ mdl = NoMetadataLock
    /\ hist = InitHist(S)

NextDelta ==
    \/ \E k \in Keys, deleted \in BOOLEAN : Write(k, deleted, DeltaEvents)
    \/ ReceiveEvent
    \/ Flush

SpecDelta == InitDelta /\ [][NextDelta]_vars

\* ------------------------- specification: RetryableTransaction on its own
\* flushDeltaQueue calls it with ignoreDupKeyWarnings = true and the client's
\* DBConfig, flushDeltaMap and bufferedMap.Flush with false and NewDBConfig().
InitTxn ==
    /\ S = [k \in Keys |-> InitialRow]
    /\ shadow = EmptyTable
    /\ InitRepl(BOOLEAN, BOOLEAN)
    /\ InitChunker(NumKeys, {1})
    /\ currentState = stateInitial
    /\ InitCutOver
    /\ InitCheckpointer
    /\ hist = InitHist(S)
    /\ runner = NoSetup
    /\ exec = NoExec
    /\ checker = NoChecker
    /\ hashing = NoHashing
    /\ tableLock = NoTableLock
    /\ mdl = NoMetadataLock
    /\ \E m \in 1..MaxRetries, stmts \in {<<"s">>, <<"s", "s">>, <<"", "s">>} :
          txn = [pc |-> "begin", maxRetries |-> m, ignoreDupKeyWarnings |-> disableDeltaMap,
                 stmts |-> stmts, i |-> 0, s |-> 0, err |-> NilError, ret |-> NilError,
                 open |-> FALSE, warnings |-> <<>>, begun |-> 0, committed |-> 0,
                 fails |-> <<>>, ev |-> "call", rowsAffected |-> 0, attemptRows |-> 0]

NextTxn ==
    \/ TxnBegin
    \/ TxnStandardize
    \/ TxnExec
    \/ TxnWarnings
    \/ TxnCommit
    \/ TxnExhausted

SpecTxn == InitTxn /\ [][NextTxn]_vars


\* ------------------------------- specification: Runner.setup of a new run
\* A run starts with an alter statement and its strict setting against what an
\* earlier run may have left: the new table with some copied rows, the
\* checkpoint table with a newest row, and the row's binlog file still on the
\* server or purged. setup and resumeFromCheckpoint never read the strict
\* setting.
ServerHistory == <<[key |-> <<MinKey>>, deleted |-> FALSE, row |-> <<MinKey, 2>>]>>

CheckpointRows ==
    [low_watermark : (MinKey + 1)..(NumKeys + 1), binlog_pos : 0..Len(ServerHistory),
     alter_statement : Alters]

InitSetup ==
    /\ serverPos \in 0..Len(ServerHistory)
    /\ exec = NoExec
    /\ checker = NoChecker
    /\ hashing = NoHashing
    /\ tableLock = NoTableLock
    /\ mdl = NoMetadataLock
    /\ S = [k \in Keys |-> IF k = MinKey /\ serverPos > 0 THEN <<2>> ELSE InitialRow]
    /\ shadow \in [Keys -> {NoRow, InitialRow}]
    /\ binlog = <<>>
    /\ bufferedPos = 0
    /\ flushedPos = 0
    /\ useExperimentalBufferedMap = FALSE
    /\ changes = <<>>
    /\ disableDeltaMap = FALSE
    /\ deltaMap = <<>>
    /\ deltaQueue = <<>>
    /\ enableKeyAboveWatermark = FALSE
    /\ InitChunker(NumKeys, {1})
    /\ currentState = stateInitial
    /\ InitCutOver
    /\ ckpt = [pc |-> "idle", binlog |-> 0, lowWatermark |-> NoWatermark]
    /\ checkpointTable \in {<<>>} \cup {<<row>> : row \in CheckpointRows}
    /\ checkpointTable # <<>> => checkpointTable[1].binlog_pos <= serverPos
    /\ txn = NoTxn
    /\ hist = [InitHist(S) EXCEPT !.log = SubSeq(ServerHistory, 1, serverPos)]
    /\ \E strict \in BOOLEAN, alter \in Alters, newTableExists \in BOOLEAN,
          cpTableExists \in BOOLEAN, binlogAvailable \in BOOLEAN, checksum \in BOOLEAN,
          oldTableExists \in BOOLEAN :
          /\ ~newTableExists => shadow = EmptyTable
          /\ ~cpTableExists => checkpointTable = <<>>
          /\ runner = [pc |-> "dropOldTable", strict |-> strict, alter |-> alter,
                       checksum |-> checksum,
                       newTableExists |-> newTableExists, cpTableExists |-> cpTableExists,
                       binlogAvailable |-> binlogAvailable, resumeErr |-> NilError,
                       ret |-> NilError, usedResumeFromCheckpoint |-> FALSE, ddl |-> <<>>,
                       oldTableExists |-> oldTableExists, run |-> "setup",
                       runRet |-> NilError, checksumPassed |-> FALSE, ctxDone |-> FALSE,
                       cancelledIn |-> stateInitial, rowsAtCancel |-> 0,
                       checkpointer |-> "none", status |-> "none", checkerAssigned |-> FALSE,
                       lateCheckpoint |-> FALSE, notifications |-> 0,
                       done |-> <<>>, returnedFrom |-> "none",
                       start |-> [newTableExists |-> newTableExists, checksum |-> checksum,
                                  checkpointTable |-> checkpointTable]]

NextSetup ==
    \/ dropOldTable
    \/ SetupResume
    \/ createNewTable
    \/ alterNewTable
    \/ createCheckpointTable
    \/ SetupReplClientRun

SpecSetup == InitSetup /\ [][NextSetup]_vars


\* ------------------------------------ specification: Runner.Run as a whole
NextRun ==
    \/ NextSetup
    \/ RunSetupReturned
    \/ RunCopyRows
    \/ RunApplyChangeset
    \/ RunAnalyzeTable
    \/ RunNewChecker
    \/ RunChecksum
    \/ RunCutOver
    \/ RunDropOldTable
    \/ RunCutOverRun
    \/ cleanup
    \/ Cancel
    \/ dumpCheckpointContinuously
    \/ dumpCheckpoint
    \/ dumpStatus
    \/ tableChangeNotification

SpecRun == InitSetup /\ [][NextRun]_vars


\* ---------------------------------------------------- chunker properties
\* C5: the low watermark never moves backwards, whatever the order in which
\* workers call Next and Feedback.
C5_WatermarkMonotonic == [][watermark' >= watermark]_vars

\* A chunk completed out of order, waited in the pending map and has since been
\* passed by the watermark, while a worker holds a further chunk.
C5_Witness ==
    /\ hist.stashed # {}
    /\ \A c \in hist.stashed : c.upper <= watermark
    /\ \E w \in Workers : workers[w].st = "got"

\* C6: the watermark covers only contiguously completed chunks: every chunk
\* handed out below it has received Feedback and it lies on the upper bound of
\* a completed chunk; a completed chunk at or above it is kept in the pending
\* map and has a predecessor that is not complete.
C6_ContiguousWatermark ==
    /\ \A c \in hist.handed : c.lower < WatermarkUpper(watermark) => c \in hist.fed
    /\ watermark # NoWatermark => \E c \in hist.fed : c.upper = watermark
    /\ \A c \in hist.fed :
          c.lower >= WatermarkUpper(watermark) =>
              /\ Sprintf_v(c.lower) \in DOMAIN lowerBoundWatermarkMap
              /\ lowerBoundWatermarkMap[Sprintf_v(c.lower)] = c
              /\ \E d \in hist.handed \ hist.fed : d.lower < c.lower
    /\ Range(lowerBoundWatermarkMap) \subseteq hist.fed

\* A completed chunk waits in the pending map behind an incomplete predecessor
\* while the watermark has already advanced over earlier chunks.
C6_Witness ==
    /\ watermark # NoWatermark
    /\ DOMAIN lowerBoundWatermarkMap # {}
    /\ \E w \in Workers : workers[w].st # "idle" /\ workers[w].lower = watermark

\* ------------------------------------------------ delta store properties
\* The received events no successful flush has taken yet, oldest first.
PendingEvents == SelectSeq(hist.events, LAMBDA e : ~e.flushed)

\* The kind (isDelete) of the last event of key k in the sequence evs.
LastKind(evs, k) ==
    evs[CHOOSE i \in DOMAIN evs : evs[i].key = k /\ \A j \in DOMAIN evs : evs[j].key = k => j <= i].deleted

EventKeys(evs) == {evs[i].key : i \in DOMAIN evs}

\* C9: in map mode and in buffered map mode, with the optimisation off, the
\* delta store holds exactly one entry for each distinct key that had an event
\* since the last flush, and the entry's kind is that of the key's most recent
\* event.
C9_MapKeepsLastKind ==
    (~disableDeltaMap /\ ~enableKeyAboveWatermark) =>
        LET store == IF useExperimentalBufferedMap
                     THEN [h \in DOMAIN changes |-> changes[h].isDeleted]
                     ELSE deltaMap
        IN  /\ DOMAIN store = {HashKey(<<k>>) : k \in EventKeys(PendingEvents)}
            /\ Cardinality(DOMAIN store) = Cardinality(EventKeys(PendingEvents))
            /\ \A k \in EventKeys(PendingEvents) :
                  store[HashKey(<<k>>)] = LastKind(PendingEvents, k)

\* The delta map holds a delete for a key whose events were an upsert and then
\* a delete, and an upsert for a key deleted and then written again.
C9_Witness ==
    /\ ~disableDeltaMap /\ ~useExperimentalBufferedMap
    /\ hist.flushes = 0
    /\ \E i, j, m, n \in DOMAIN hist.events :
          /\ i < j /\ hist.events[i].key = hist.events[j].key
          /\ ~hist.events[i].deleted /\ hist.events[j].deleted
          /\ m < n /\ hist.events[m].key = hist.events[n].key
          /\ hist.events[m].deleted /\ ~hist.events[n].deleted
          /\ deltaMap[HashKey(<<hist.events[j].key>>)]
          /\ ~deltaMap[HashKey(<<hist.events[n].key>>)]

RECURSIVE FlattenKeys(_)
FlattenKeys(stmts) ==
    IF Len(stmts) = 0 THEN <<>> ELSE Head(stmts).keys \o FlattenKeys(Tail(stmts))

\* For each key of each statement in order, whether its statement is a DELETE.
RECURSIVE FlattenKinds(_)
FlattenKinds(stmts) ==
    IF Len(stmts) = 0 THEN <<>>
    ELSE [i \in 1..Len(Head(stmts).keys) |-> Head(stmts).kind = "delete"]
             \o FlattenKinds(Tail(stmts))

\* The queued changes q[1..n] applied to the shadow table one at a time.
RECURSIVE ApplyQueue(_, _, _, _)
ApplyQueue(q, n, sh, src) ==
    IF n = 0 THEN sh
    ELSE LET before == ApplyQueue(q, n - 1, sh, src)
         IN  [k \in Keys |->
                IF k \notin RowsMatching(q[n].key) THEN before[k]
                ELSE IF q[n].isDelete THEN NoRow
                ELSE IF src[k] # NoRow THEN src[k]
                ELSE before[k]]

\* C10: a successful flush of the delta queue executes statements whose keys,
\* read in statement order, are the queue in its order; each statement is a
\* DELETE or a REPLACE over a non-empty run of adjacent changes of that kind;
\* and the shadow table is as if the changes had been applied one at a time in
\* queue order.
C10_QueueFlushInOrder ==
    [][(disableDeltaMap /\ deltaQueue # <<>> /\ deltaQueue' = <<>>) =>
          LET stmts == flushDeltaQueueStmts(deltaQueue)
          IN  /\ FlattenKeys(stmts) = [i \in 1..Len(deltaQueue) |-> deltaQueue[i].key]
              /\ FlattenKinds(stmts) = [i \in 1..Len(deltaQueue) |-> deltaQueue[i].isDelete]
              /\ \A j \in DOMAIN stmts :
                    stmts[j].kind \in {"delete", "replace"} /\ ~IsEmptyStmt(stmts[j])
              /\ shadow' = ApplyQueue(deltaQueue, Len(deltaQueue), shadow, S)]_vars

\* One flush has emptied a queue that held an upsert, a delete and an upsert
\* again, the first two of the same key.
C10_Witness ==
    /\ disableDeltaMap
    /\ hist.flushes = 1
    /\ deltaQueue = <<>>
    /\ Len(hist.events) >= 3
    /\ \A i \in DOMAIN hist.events : Applied(hist.events[i])
    /\ ~hist.events[1].deleted /\ hist.events[2].deleted /\ ~hist.events[3].deleted
    /\ hist.events[1].key = hist.events[2].key

\* -------------------------------------------------- migration properties
\* C1: when RENAME TABLE has executed, the shadow table holds exactly the rows
\* S held when the table lock was taken, whatever the interleaving of chunk
\* copies, writes on S, received and dropped row events, and flushes.
C1_ShadowEqualsSourceAtRename == cut.renamed => (shadow = hist.SAtLock /\ shadow = S)

\* The rename has executed in a run where one row event was dropped by the
\* key-above-watermark optimisation and another was applied by a flush.
C1_Witness ==
    /\ cut.renamed
    /\ \E i, j \in DOMAIN hist.events :
          /\ hist.events[i].above /\ ~hist.events[i].stored
          /\ Applied(hist.events[j])

\* The rename step: RENAME TABLE executes.
RenameIssued == ~cut.renamed /\ cut'.renamed

\* C2: RENAME TABLE is issued only while the lock on S and the shadow table
\* is held, after the flush under that lock returned no error and with
\* AllChangesFlushed true; an attempt that fails at the lock, at the flush
\* under the lock or at the check returns an error without a rename.
C2_RenameOnlyUnderLockAfterFlush ==
    [][/\ RenameIssued =>
            cut.pc = "check" /\ cut.lock /\ cut.flushOK /\ AllChangesFlushed
       /\ (cut.pc = "lock" /\ cut' # cut /\ ~cut'.lock) => cut'.attempt = cut.attempt + 1
       /\ (cut.pc \in {"flushUnderLock", "blockWait", "flushUnderLock2"} /\ cut' # cut
             /\ cut'.pc \notin {"blockWait", "flushUnderLock2", "check"})
            => cut'.attempt = cut.attempt + 1
       /\ (cut.pc = "check" /\ cut' # cut /\ ~AllChangesFlushed) => cut'.attempt = cut.attempt + 1
       /\ cut'.attempt = cut.attempt + 1 =>
            cut'.err /\ cut'.failed # "none" /\ ~cut'.renamed /\ ~cut'.lock]_vars

\* The rename has executed on a later attempt, after an attempt that failed.
C2_Witness == cut.renamed /\ cut.attempt >= 1 /\ ~cut.err

\* Index of the most recent received event of key k.
LastEventOf(k) ==
    CHOOSE i \in DOMAIN hist.events :
        hist.events[i].key = k /\ \A j \in DOMAIN hist.events : hist.events[j].key = k => j <= i

ReceivedKeys == EventKeys(hist.events)

FlushReturnsOK == \E underLock \in BOOLEAN : flush(underLock, TRUE)

\* The shadow table sh reflects event e of key k, given the source table src:
\* no row after a delete; after an insert or update, the row S holds.
Reflects(sh, src, k, e) ==
    IF e.deleted THEN sh[k] = NoRow ELSE (src[k] # NoRow => sh[k] = src[k])

\* The statement of C4 as it stands: after a flush returns without error,
\* every row event received before it is reflected in the shadow table.
C4_AsStated ==
    [][FlushReturnsOK =>
          \A k \in ReceivedKeys : Reflects(shadow', S, k, hist.events[LastEventOf(k)])]_vars

\* C4: after a flush returns without error, every row event received before
\* the flush started that the subscription recorded (the optimisation did not
\* drop it) and that was in the delta store when the flush started is reflected
\* in the shadow table: S's row is there after an insert or update, no row
\* after a delete.
C4_FlushReflectsRecordedEvents ==
    [][FlushReturnsOK =>
          \A k \in ReceivedKeys :
              LET e == hist.events[LastEventOf(k)]
              IN  (e.stored /\ ~e.flushed) => Reflects(shadow', S, k, e)]_vars

\* A flush has applied an update of one key and a delete of another: the
\* shadow table holds S's row of the first and no row of the second.
C4_Witness ==
    \E k1, k2 \in ReceivedKeys :
        LET e1 == hist.events[LastEventOf(k1)]
            e2 == hist.events[LastEventOf(k2)]
        IN  /\ Applied(e1) /\ ~e1.deleted /\ shadow[k1] = S[k1] /\ S[k1] # NoRow
            /\ Applied(e2) /\ e2.deleted /\ shadow[k2] = NoRow
            /\ hist.flushes = 1

\* --------------------------------------------------- checkpoint properties
\* The statement of C7 as it stands: a checkpoint row stores the flushed
\* position, read before the low watermark, and every row event at or before
\* the stored position has been applied to the shadow table.
C7_AsStated ==
    \A i \in DOMAIN checkpointTable :
        /\ checkpointTable[i].binlog_pos <= flushedPos
        /\ hist.rows[i].wmAtPosRead <= checkpointTable[i].low_watermark
        /\ \A j \in 1..checkpointTable[i].binlog_pos : Applied(hist.events[j])

\* C7: every checkpoint row stores the flushed position, never the buffered
\* one, and the position is read before the low watermark; every row event at
\* or before the stored position has been through a successful flush, which
\* applied it to the shadow table unless the subscription had dropped it for a
\* key above the high watermark.
C7_CheckpointStoresFlushedPosition ==
    \A i \in DOMAIN checkpointTable :
        /\ checkpointTable[i].binlog_pos <= flushedPos
        /\ hist.rows[i].wmAtPosRead <= checkpointTable[i].low_watermark
        /\ \A j \in 1..checkpointTable[i].binlog_pos :
              /\ hist.events[j].flushed
              /\ hist.events[j].stored \/ hist.events[j].above

\* A row was written whose position covers an applied event while a later
\* event was buffered only, and the watermark moved between the two reads.
C7_Witness ==
    \E i \in DOMAIN checkpointTable :
        /\ checkpointTable[i].binlog_pos >= 1
        /\ Applied(hist.events[1])
        /\ Len(hist.events) > checkpointTable[i].binlog_pos
        /\ hist.rows[i].wmAtPosRead < checkpointTable[i].low_watermark

\* The statement of C8 as it stands: after a resume, the chunks copied again
\* are at most one for each worker that had a chunk in flight when the
\* checkpoint was taken.
C8_AsStated == hist.resumed => Cardinality(hist.redone) <= Cardinality(hist.base.inflight)

\* C8: after a resume from the newest checkpoint, every chunk handed out
\* before the checkpoint and handed out again was, when the checkpoint's low
\* watermark was read, in flight at a worker or complete and waiting in the
\* pending map; no chunk below the checkpointed watermark is copied again.
C8_ResumeRecopiesInFlightOrPending ==
    hist.resumed =>
        /\ hist.redone \subseteq (hist.base.inflight \cup hist.base.pending)
        /\ Cardinality(hist.redone)
             <= Cardinality(hist.base.inflight) + Cardinality(hist.base.pending)
        /\ \A c \in hist.redone : c.lower >= hist.base.lowWatermark

\* After the resume a chunk that was in flight at the checkpoint and one that
\* waited in the pending map have both been handed out again.
C8_Witness ==
    /\ hist.resumed
    /\ hist.redone \cap hist.base.inflight # {}
    /\ hist.redone \cap hist.base.pending # {}

\* ------------------------------------------- key-above-watermark properties
\* The statement of C11 as it stands: a delete event is always recorded in the
\* delta store, wherever its key lies relative to the high watermark.
C11_AsStated == \A i \in DOMAIN hist.events : hist.events[i].deleted => hist.events[i].stored

\* The step is the reception of a row event by the subscription.
EventReceived == Len(hist'.events) = Len(hist.events) + 1

\* The key of the event the step receives.
ReceivedKey == Head(binlog).key[1]

\* C11: the key-above-high-watermark callback is consulted for delete events as
\* it is for upserts: a delete event whose key the callback reports as above the
\* high watermark while the optimisation is on leaves the delta store unchanged,
\* and every other delete event is recorded in the delta store.
C11_CallbackConsultedForDeletes ==
    [][(EventReceived /\ Head(binlog).deleted) =>
          IF keyAboveWatermarkEnabled /\ KeyAboveHighWatermark(ReceivedKey)
          THEN UNCHANGED <<changes, deltaMap, deltaQueue>>
          ELSE InStoreOf(changes', deltaMap', deltaQueue', ReceivedKey, TRUE)]_vars

\* A delete event was dropped above the high watermark, and another delete
\* event, received while the optimisation was off, was recorded.
C11_Witness ==
    \E i, j \in DOMAIN hist.events :
        /\ hist.events[i].deleted /\ hist.events[i].enabled /\ hist.events[i].callback
        /\ ~hist.events[i].stored
        /\ hist.events[j].deleted /\ ~hist.events[j].enabled /\ hist.events[j].stored

\* C12: with the optimisation enabled and the callback attached, an event whose
\* key the callback reports as above the high watermark leaves the delta store
\* unchanged, delete events included, and an event whose key a handed-out chunk
\* covers is recorded with its kind.
C12_AboveWatermarkLeavesStoreUnchanged ==
    [][(EventReceived /\ keyAboveWatermarkEnabled) =>
          IF KeyAboveHighWatermark(ReceivedKey)
          THEN UNCHANGED <<changes, deltaMap, deltaQueue>>
          ELSE /\ ReceivedKey \in HandedKeys
               /\ InStoreOf(changes', deltaMap', deltaQueue', ReceivedKey, Head(binlog).deleted)
               /\ <<changes, deltaMap, deltaQueue>>' # <<changes, deltaMap, deltaQueue>>
                    \/ InStore(ReceivedKey, Head(binlog).deleted)]_vars

\* A delete of a row no chunk has covered was dropped with an empty store, and
\* a change to a covered key was recorded, both with the optimisation on.
C12_Witness ==
    \E i, j \in DOMAIN hist.events :
        /\ hist.events[i].deleted /\ hist.events[i].enabled /\ hist.events[i].callback
        /\ ~hist.events[i].stored
        /\ hist.events[j].enabled /\ ~hist.events[j].callback /\ hist.events[j].stored
        /\ j > i

\* C13: in every state after copyRows the key-above-watermark optimisation is
\* off, and every row event received in such a state is recorded in the delta
\* store: none is dropped from the first flush of prepareForCutover onward.
C13_OptimisationOffAfterCopy ==
    [][/\ currentState' > stateCopyRows => ~enableKeyAboveWatermark'
       /\ (EventReceived /\ currentState > stateCopyRows) =>
             InStoreOf(changes', deltaMap', deltaQueue', ReceivedKey, Head(binlog).deleted)]_vars

\* The optimisation dropped an event during the copy, and after the flush of
\* prepareForCutover a later event was received and sits in the delta store.
C13_Witness ==
    /\ currentState \in {stateAnalyzeTable, stateCutOver}
    /\ bufferedPos > flushedPos
    /\ StoreKeys # {}
    /\ \E i \in DOMAIN hist.events :
          hist.events[i].enabled /\ hist.events[i].callback /\ ~hist.events[i].stored

StatementFailed == txn' # txn /\ txn'.ev = "execErr"

\* The error of the attempt that has just failed.
FailedWith == txn'.fails[Len(txn'.fails)]

\* The step rolls back and goes on to the next iteration of the retry loop.
RolledBackToRetry == txn'.pc = "begin" /\ txn'.i = txn.i + 1 /\ ~txn'.open

\* The step rolls back and returns the failing error at once.
RolledBackAndReturned ==
    txn'.pc = "returned" /\ txn'.ret = FailedWith /\ ~txn'.open /\ txn'.i = txn.i

\* The statement of C16 as it stands: a statement error is retried exactly when
\* its number is 1213, 1205, 1290, 2013 or 1836.
C16_AsStated ==
    [][StatementFailed =>
          IF FailedWith.kind = "mysql" /\ FailedWith.number \in {1213, 1205, 1290, 2013, 1836}
          THEN RolledBackToRetry
          ELSE RolledBackAndReturned]_vars

\* C16: inside RetryableTransaction a statement error leads to rollback and the
\* next attempt exactly when its MySQL error number is 1213, 1205, 1290, 2013,
\* 1836 or 2003 (cannot connect); any other statement error is rolled back and
\* returned at once.
C16_RetryOnSixErrorNumbers ==
    [][StatementFailed =>
          IF FailedWith.kind = "mysql"
                /\ FailedWith.number \in {1213, 1205, 1290, 2013, 1836, 2003}
          THEN RolledBackToRetry
          ELSE RolledBackAndReturned]_vars

\* A statement failed with 2003 and was retried; on the next attempt it failed
\* with another server error, which was returned at once.
C16_Witness ==
    /\ txn.pc = "returned" /\ txn.i = 1 /\ txn.maxRetries > 1
    /\ Len(txn.fails) = 2
    /\ txn.fails[1] = MySQLError(errCannotConnect)
    /\ txn.fails[2] = MySQLError(1146)
    /\ txn.ret = txn.fails[2]

WarningsInspected == txn' # txn /\ txn.pc = "warnings" /\ txn'.ev # "warningsErr"

\* The step rolls the transaction back and returns an error.
FlushAborted ==
    txn'.pc = "returned" /\ txn'.ret # NilError /\ ~txn'.open /\ txn'.committed = 0

\* The statement of C18 as it stands: a warning aborts the transaction exactly
\* when its code is neither 1062 nor 3170, in map mode as in queue mode.
C18_AsStated ==
    [][WarningsInspected =>
          (FlushAborted <=> \E n \in DOMAIN txn.warnings : txn.warnings[n] \notin {1062, 3170})]_vars

\* C18: in a flush through RetryableTransaction a warning 3170 never aborts the
\* transaction; a warning 1062 does not abort it in queue mode, where
\* flushDeltaQueue asks for duplicate-key warnings to be ignored, and aborts it
\* in map mode, where flushDeltaMap does not; any other warning rolls the
\* transaction back and surfaces an error.
C18_UnsafeWarningAborts ==
    [][WarningsInspected =>
          (FlushAborted <=>
              \E n \in DOMAIN txn.warnings :
                  /\ txn.warnings[n] # 3170
                  /\ txn.warnings[n] = 1062 => ~disableDeltaMap)]_vars

\* In map mode a statement drew warning 1062 and the transaction was rolled
\* back with an error.
C18_Witness ==
    /\ ~disableDeltaMap /\ ~useExperimentalBufferedMap
    /\ txn.pc = "returned" /\ txn.ev = "unsafeWarning"
    /\ txn.ret.number = 1062
    /\ txn.warnings = <<1062>>

\* --------------------------------- specification: one flush of a full store
FlushHashes == {HashKey(<<k>>) : k \in 1..MaxFlushKeys}

\* The store as row events can have left it.  Rows exist for Keys only: a key
\* beyond them is one whose row S has lost again.
InitStore ==
    /\ useExperimentalBufferedMap \in BOOLEAN
    /\ disableDeltaMap \in BOOLEAN
    /\ ~(useExperimentalBufferedMap /\ disableDeltaMap)
    /\ IF useExperimentalBufferedMap
       THEN /\ \E K \in SUBSET Keys, D \in SUBSET Keys :
                 changes = [h \in {HashKey(<<k>>) : k \in K} |->
                              LET k == CHOOSE x \in K : HashKey(<<x>>) = h
                              IN  IF k \in D THEN [isDeleted |-> TRUE, rowImage |-> <<>>]
                                  ELSE [isDeleted |-> FALSE, rowImage |-> <<k, 2>>]]
            /\ deltaMap = <<>>
            /\ deltaQueue = <<>>
       ELSE IF disableDeltaMap
       THEN /\ \E n \in 0..MaxFlushKeys :
                 deltaQueue \in [1..n -> [key : FlushHashes, isDelete : BOOLEAN]]
            /\ changes = <<>>
            /\ deltaMap = <<>>
       ELSE /\ \E K \in SUBSET FlushHashes : deltaMap \in [K -> BOOLEAN]
            /\ changes = <<>>
            /\ deltaQueue = <<>>

InitFlushExec ==
    /\ S \in [Keys -> {NoRow, <<2>>}]
    /\ shadow = [k \in Keys |-> InitialRow]
    /\ binlog = <<>>
    /\ serverPos = 0
    /\ bufferedPos = 0
    /\ flushedPos = 0
    /\ InitStore
    /\ enableKeyAboveWatermark = FALSE
    /\ InitChunker(NumKeys, {1})
    /\ currentState = stateCutOver
    /\ cut \in {[pc |-> "flush", attempt |-> 0, lock |-> FALSE, flushOK |-> FALSE,
                 renamed |-> FALSE, err |-> FALSE, failed |-> "none", errs |-> <<>>,
                 maxRetries |-> MaxRetries],
                [pc |-> "flushUnderLock", attempt |-> 0, lock |-> TRUE, flushOK |-> FALSE,
                 renamed |-> FALSE, err |-> FALSE, failed |-> "none", errs |-> <<>>,
                 maxRetries |-> MaxRetries]}
    /\ InitCheckpointer
    /\ txn = NoTxn
    /\ runner = NoSetup
    /\ exec = IdleExec
    /\ checker = NoChecker
    /\ hashing = NoHashing
    /\ tableLock = NoTableLock
    /\ mdl = NoMetadataLock
    /\ hist = InitHist(S)

NextFlushExec ==
    \/ FlushBegin
    \/ CallKeyHasChanged
    \/ LockedKeyHasChanged
    \/ ExecUnderLock
    \/ QueueTransaction
    \/ Go
    \/ GoReturns
    \/ FlushEnd

SpecFlushExec == InitFlushExec /\ [][NextFlushExec]_vars

\* --------------------------------------------------------------------------
\* CutOver.Run for every configured DBConfig.MaxRetries from 0 up: the copy is
\* complete, changes may be waiting in the store, and Run is about to be called.
InitCutOverRun ==
    /\ S \in [Keys -> {NoRow, <<2>>}]
    /\ shadow = [k \in Keys |-> InitialRow]
    /\ binlog = <<>>
    /\ serverPos = 0
    /\ bufferedPos = 0
    /\ flushedPos = 0
    /\ InitStore
    /\ enableKeyAboveWatermark = FALSE
    /\ InitChunker(NumKeys, {1})
    /\ currentState = stateCutOver
    /\ \E m \in 0..MaxRetries :
          cut = [pc |-> "run", attempt |-> 0, lock |-> FALSE, flushOK |-> FALSE,
                 renamed |-> FALSE, err |-> FALSE, failed |-> "none", errs |-> <<>>,
                 maxRetries |-> m]
    /\ InitCheckpointer
    /\ txn = NoTxn
    /\ runner = NoSetup
    /\ exec = NoExec
    /\ checker = NoChecker
    /\ hashing = NoHashing
    /\ tableLock = NoTableLock
    /\ mdl = NoMetadataLock
    /\ hist = InitHist(S)

NextCutOverRun ==
    \/ CutOverRun
    \/ CutOverFlush
    \/ NewTableLock
    \/ FlushUnderTableLock
    \/ BlockWait
    \/ FinalFlushUnderTableLock
    \/ RenameUnderLock

SpecCutOverRun == InitCutOverRun /\ [][NextCutOverRun]_vars

\* --------------------------------------------------------------------------
\* One call of the retrying NewTableLock, DBConfig.MaxRetries at least 1.
InitTableLock ==
    /\ S = [k \in Keys |-> InitialRow]
    /\ shadow = EmptyTable
    /\ InitRepl({FALSE}, {FALSE})
    /\ InitChunker(NumKeys, {1})
    /\ currentState = stateCutOver
    /\ InitCutOver
    /\ InitCheckpointer
    /\ txn = NoTxn
    /\ runner = NoSetup
    /\ exec = NoExec
    /\ checker = NoChecker
    /\ hashing = NoHashing
    /\ \E m \in 1..(MaxRetries + 1) :
          tableLock = [pc |-> "loop", maxRetries |-> m, i |-> 0, err |-> NilError,
                       isFatal |-> FALSE, open |-> FALSE, log |-> <<>>, ret |-> NilError,
                       acquired |-> FALSE]
    /\ mdl = NoMetadataLock
    /\ hist = InitHist(S)

NextTableLock == NewTableLockAttempt \/ NewTableLockExhausted

SpecTableLock == InitTableLock /\ [][NextTableLock]_vars

\* --------------------------------------------------------------------------
\* A MetadataLock as NewMetadataLock returns it: the lock acquired, m.cancel
\* and m.closeCh set, the refresh goroutine started.
InitMetadataLock ==
    /\ S = [k \in Keys |-> InitialRow]
    /\ shadow = EmptyTable
    /\ InitRepl({FALSE}, {FALSE})
    /\ InitChunker(NumKeys, {1})
    /\ currentState = stateInitial
    /\ InitCutOver
    /\ InitCheckpointer
    /\ txn = NoTxn
    /\ runner = NoSetup
    /\ exec = NoExec
    /\ checker = NoChecker
    /\ hashing = NoHashing
    /\ tableLock = NoTableLock
    /\ mdl = [pc |-> "held", goroutine |-> "running", ctxDone |-> FALSE,
              parentDone |-> FALSE, dbClosed |-> FALSE, refreshes |-> 0,
              refreshed |-> TRUE,
              close |-> [c \in Closers |-> "idle"]]
    /\ hist = InitHist(S)

NextMetadataLock ==
    \/ MdlParentCancelled
    \/ MdlRefresh
    \/ MdlCtxDone
    \/ MdlClose
    \/ MdlCloseReturns

SpecMetadataLock == InitMetadataLock /\ [][NextMetadataLock]_vars

\* The goroutine and the callers of Close are scheduled: a step that stays
\* possible is taken.
SpecMetadataLockFair ==
    /\ SpecMetadataLock
    /\ WF_vars(MdlCtxDone)
    /\ WF_vars(MdlCloseReturns)

\* ------------------------------ specification: keys hashed and unhashed
\* Column values: integers, and strings with and without quotes and the
\* separator's characters.
KeyValues ==
    {[int |-> n] : n \in {0, 7, 12}} \cup
    {[str |-> s] : s \in {<<>>, <<"a">>, <<"1", "2">>, <<"-">>, <<"a", "-", "#">>,
                          <<"a", "'", "b">>, <<"\\">>, <<"-", "#", "-">>,
                          <<"a", "-", "#", "-", "b">>, <<"-", "#", "-", "#", "-">>}}

InitHashing ==
    /\ S = [k \in Keys |-> InitialRow]
    /\ shadow = EmptyTable
    /\ InitRepl({FALSE}, {FALSE})
    /\ InitChunker(NumKeys, {1})
    /\ currentState = stateInitial
    /\ InitCutOver
    /\ InitCheckpointer
    /\ txn = NoTxn
    /\ runner = NoSetup
    /\ exec = NoExec
    /\ checker = NoChecker
    /\ \E n \in 1..MaxKeyColumns : \E key \in [1..n -> KeyValues] :
          hashing = [pc |-> "key", key |-> key, hashed |-> <<>>, unhashed |-> <<>>,
                     other |-> <<>>, otherHashed |-> <<>>]
    /\ tableLock = NoTableLock
    /\ mdl = NoMetadataLock
    /\ hist = InitHist(S)

NextHashing == CallHashKey \/ CallUnhashKey \/ CallHashKeyOther

SpecHashing == InitHashing /\ [][NextHashing]_vars

\* ------------------------------ specification: the checksum of two tables
\* Both tables hold any rows: the checker is handed tables that match and
\* tables with missing, extra and stale rows.
InitChecksum ==
    /\ S \in [Keys -> {NoRow, InitialRow, <<2>>}]
    /\ shadow \in [Keys -> {NoRow, InitialRow, <<2>>}]
    /\ InitRepl({FALSE}, {FALSE})
    /\ InitChunker(NumKeys, {1})
    /\ currentState = stateChecksum
    /\ InitCutOver
    /\ InitCheckpointer
    /\ txn = NoTxn
    /\ runner = NoSetup
    /\ exec = NoExec
    /\ hashing = NoHashing
    /\ tableLock = NoTableLock
    /\ mdl = NoMetadataLock
    /\ \E fix \in BOOLEAN :
          checker = [pc |-> "new", FixDifferences |-> fix, runs |-> 0, ptr |-> MinKey,
                     differencesFound |-> 0, err |-> NilError, differed |-> {},
                     afterPass |-> FALSE, repaired |-> 0]
    /\ hist = InitHist(S)

NextChecksum == NewChecker \/ ChecksumChunk \/ ChecksumDone

SpecChecksum == InitChecksum /\ [][NextChecksum]_vars

\* ------------------------------------------------- setup properties
\* The run found a checkpoint it could read whose alter_statement is not the
\* alter statement it was started with.
MismatchedAtStart ==
    /\ runner.pc # "none"
    /\ runner.start.newTableExists
    /\ runner.start.checkpointTable # <<>>
    /\ runner.start.checkpointTable[1].alter_statement # runner.alter

\* The run found a checkpoint for its alter statement whose binlog file the
\* server no longer has.
BinlogGoneAtStart ==
    /\ runner.pc # "none"
    /\ runner.start.newTableExists
    /\ runner.start.checkpointTable # <<>>
    /\ runner.start.checkpointTable[1].alter_statement = runner.alter
    /\ ~runner.binlogAvailable

\* C19: when a checkpoint exists whose stored alter statement differs from
\* the requested one and strict mode is on, the run returns ErrMismatchedAlter
\* and modifies no table: the new table and the checkpoint table are neither
\* dropped nor recreated.
C19_StrictMismatchReturnsError ==
    (runner.pc # "none" /\ runner.strict /\ MismatchedAtStart) =>
        /\ \A i \in DOMAIN runner.ddl : runner.ddl[i].table \notin {"_new", "_chkpnt"}
        /\ checkpointTable = runner.start.checkpointTable
        /\ runner.pc = "returned" => runner.ret = OtherError("ErrMismatchedAlter")

\* C20: when the binlog file named by the checkpoint is no longer on the
\* server and strict mode is on, the run returns ErrBinlogNotFound and does
\* not fall back to a fresh migration.
C20_StrictBinlogGoneReturnsError ==
    (runner.pc # "none" /\ runner.strict /\ BinlogGoneAtStart) =>
        /\ runner.pc \notin {"createNewTable", "alterNewTable", "createCheckpointTable",
                             "replClientRun"}
        /\ runner.pc = "returned" => runner.ret = OtherError("ErrBinlogNotFound")

\* setup has returned nil to Run after a failed attempt to resume.
FellBack ==
    /\ runner.pc = "returned"
    /\ runner.ret = NilError
    /\ runner.resumeErr # NilError

\* The statements of createNewTable and createCheckpointTable have run.
TablesRecreated ==
    /\ \A st \in {DDL("DROP", "_new"), DDL("CREATE", "_new"),
                  DDL("DROP", "_chkpnt"), DDL("CREATE", "_chkpnt")} :
          \E i \in DOMAIN runner.ddl : runner.ddl[i] = st
    /\ runner.newTableExists /\ shadow = EmptyTable
    /\ runner.cpTableExists /\ checkpointTable = <<>>

\* The copier is at the beginning and the replication client at the server's
\* current position with empty stores.
CopierAndClientFresh ==
    /\ chunkPtr = MinKey /\ watermark = NoWatermark /\ lowerBoundWatermarkMap = <<>>
    /\ \A w \in Workers : workers[w] = IdleWorker
    /\ bufferedPos = serverPos /\ flushedPos = serverPos /\ binlog = <<>>
    /\ changes = <<>> /\ deltaMap = <<>> /\ deltaQueue = <<>>
    /\ ~runner.usedResumeFromCheckpoint

Renamed == \E i \in DOMAIN runner.ddl : runner.ddl[i] = DDL("RENAME", "_old")

\* prepareForCutover has returned nil: Run is at the cutover or past it.
PreparedForCutover ==
    \/ runner.run \in {"cutover", "dropOldTable", "cutoverRun", "cleanup"}
    \/ Renamed

\* C22: after a successful resume from checkpoint the checksum runs and has
\* passed before the cutover starts, whatever the configured checksum setting.
C22_ResumeForcesChecksum ==
    (runner.pc # "none" /\ runner.usedResumeFromCheckpoint) =>
        /\ runner.checksum
        /\ PreparedForCutover => runner.checksumPassed
        /\ runner.runRet = NilError /\ runner.run = "returned" => runner.checksumPassed

C22_Witness ==
    /\ runner.pc # "none"
    /\ runner.usedResumeFromCheckpoint
    /\ ~runner.start.checksum
    /\ runner.run = "returned" /\ runner.runRet = NilError
    /\ Renamed /\ runner.checksumPassed

\* C23: after a run that went through the copy path and returned success,
\* the renamed original table _t_old does not exist.
C23_OldTableDroppedOnSuccess ==
    (runner.pc # "none" /\ runner.run = "returned" /\ runner.runRet = NilError /\ Renamed) =>
        ~runner.oldTableExists

\* C24: when the run is cancelled while copying or checksumming, the
\* checkpointer writes one final checkpoint before it stops.
C24_FinalCheckpointOnCancel ==
    (/\ runner.pc # "none"
     /\ runner.ctxDone
     /\ runner.cancelledIn \in {stateCopyRows, stateChecksum}
     /\ runner.checkpointer = "stopped") =>
        Len(checkpointTable) = runner.rowsAtCancel + 1

\* The step is a call of tableChangeNotification.
Notified == runner.pc # "none" /\ runner'.notifications = runner.notifications + 1

PanicFeedback == 
    /\ hist.feedback.n > 0
    /\ hist.feedback.d >= DynamicPanicFactor * ChunkerDefaultTarget

C26_ChunkSizeBounds ==
    [][/\ MinDynamicRowSize <= chunkSize'
       /\ chunkSize' <= MaxDynamicRowSize
       /\ 2 * chunkSize' <= MaxDynamicStepFactorX2 * chunkSize
       /\ PanicFeedback' =>
             /\ chunkSize' < chunkSize \/ chunkSize = MinDynamicRowSize
             /\ chunkTimingInfo' = <<>>]_vars

C26_Witness ==
    /\ PanicFeedback
    /\ 1 < hist.feedback.n
    /\ hist.feedback.n < ChunkTimingWindow
    /\ chunkSize = StartingChunkSize \div 2

\* ------------------------------------------------- flush execution properties
\* A flush of the delta map or of the buffered map that is not under the
\* table lock.
MapFlushOutsideLock ==
    /\ exec.pc # "none"
    /\ ~exec.underLock
    /\ ~(disableDeltaMap /\ ~useExperimentalBufferedMap)

StmtsNaming(h) == {i \in DOMAIN exec.stmts : h \in StmtKeys(exec.stmts[i])}

\* C27: in a map-mode flush outside the lock every key of the store is named by
\* exactly one of the statements built, the statements name no other key, and
\* never more than Concurrency statements are executing at once.
C27_DisjointBatchesBoundedParallelism ==
    MapFlushOutsideLock =>
        /\ Cardinality(exec.running) <= Concurrency
        /\ exec.pc = "running" =>
              /\ \A h \in StoreKeys : Cardinality(StmtsNaming(h)) = 1
              /\ \A i \in DOMAIN exec.stmts : StmtKeys(exec.stmts[i]) \subseteq StoreKeys

\* Keys in two batches, Concurrency statements in flight and a statement with
\* keys waiting for a free slot.
C27_Witness ==
    /\ MapFlushOutsideLock
    /\ exec.pc = "running"
    /\ Cardinality(exec.running) = Concurrency
    /\ exec.next <= Len(exec.stmts)
    /\ \E i \in exec.running, j \in exec.next..Len(exec.stmts) :
          /\ ~IsEmptyStmt(exec.stmts[i])
          /\ ~IsEmptyStmt(exec.stmts[j])
          /\ j > i + 1

FlushUnderLock == exec.pc # "none" /\ exec.underLock

\* C28: in a flush under the table lock every execution is on the lock's own
\* connection, one statement after the other in the order built and none in a
\* goroutine, and a flush that returns without error has executed every
\* statement that has text exactly once.
C28_UnderLockSequentialOnLockConnection ==
    FlushUnderLock =>
        /\ exec.running = {}
        /\ \A n \in DOMAIN exec.log :
              /\ exec.log[n].via = "lockTxn"
              /\ ~IsEmptyStmt(exec.stmts[exec.log[n].i])
              /\ \A m \in DOMAIN exec.log : m < n => exec.log[m].i < exec.log[n].i
        /\ (exec.pc = "returned" /\ ~exec.err) =>
              \A i \in DOMAIN exec.stmts :
                 ~IsEmptyStmt(exec.stmts[i]) => \E n \in DOMAIN exec.log : exec.log[n].i = i

C28_Witness ==
    /\ FlushUnderLock
    /\ exec.pc = "returned"
    /\ ~exec.err
    /\ Len(exec.log) >= 2
    /\ StoreKeys = {}

\* ------------------------------------------------- hashing properties
\* The quoted SQL value list of a key: one quoted, escaped value per column,
\* in parentheses unless the key has one column.
QuotedValueList(key) ==
    IF Len(key) = 1 THEN Quote(Sprintf_any(key[1]))
    ELSE <<"(">> \o Join([i \in 1..Len(key) |-> Quote(Sprintf_any(key[i]))], <<",">>) \o <<")">>

\* C29: UnhashKey(HashKey(key)) is the quoted value list of key, with as many
\* components as key has columns, the i-th the escaped string of key[i].
C29_UnhashOfHashIsTheKey ==
    hashing.pc = "unhashed" => hashing.unhashed = QuotedValueList(hashing.key)

\* ------------------------------------------------- checksum properties
\* C30: a checksum run over tables that differ returns an error when
\* FixDifferences is off, the checksum mismatch unless a statement failed
\* first; with FixDifferences on, a run that returns nil has made the tables
\* equal and reports at least one difference and no more than the rows that
\* differed; and a run that follows a run that returned nil finds the tables
\* equal and reports no difference.
C30_ChecksumMismatchOrFix ==
    checker.pc = "returned" =>
        /\ (checker.differed # {} /\ ~checker.FixDifferences) =>
              checker.err \in {ErrChecksumMismatch, errExec}
        /\ checker.err = ErrChecksumMismatch =>
              checker.differed # {} /\ ~checker.FixDifferences
        /\ (checker.differed # {} /\ checker.FixDifferences /\ checker.err = NilError) =>
              /\ shadow = S
              /\ checker.differencesFound >= 1
              /\ checker.differencesFound <= Cardinality(checker.differed)
        /\ checker.differed = {} => checker.differencesFound = 0
        /\ checker.afterPass => checker.differed = {} /\ checker.differencesFound = 0

\* A second run with FixDifferences returned nil with no difference, after a
\* first run had tables to repair.
C30_Witness ==
    /\ checker.pc = "returned"
    /\ checker.FixDifferences
    /\ checker.runs = 2
    /\ checker.afterPass
    /\ checker.err = NilError
    /\ shadow = S
    /\ checker.repaired >= 1

\* ------------------------------------------------- Run: order of the steps
\* Run has called setCurrentState(stateCutOver).
CutoverReached ==
    \/ runner.run \in {"dropOldTable", "cutoverRun", "cleanup"}
    \/ runner.returnedFrom \in {"dropOldTable", "cutoverRun", "cleanup"}
    \/ Renamed

\* The calls that must have returned nil before the cutover.
StepsBeforeCutover ==
    <<"copier.Run", "Flush", "ANALYZE TABLE">> \o
    (IF runner.checksum THEN <<"checksum", "Flush">> ELSE <<>>)

CallKey == HashKey(<<exec.call.key>>)

\* Every entry of the store snapshot is still in the store: map and buffered
\* entries unchanged (unless a later row event of the same key replaced the
\* entry), queue entries an unchanged prefix of the queue.
EntriesKept(store) ==
    /\ \A h \in DOMAIN store[1] :
          h \in DOMAIN changes /\ (h # CallKey => changes[h] = store[1][h])
    /\ \A h \in DOMAIN store[2] :
          h \in DOMAIN deltaMap /\ (h # CallKey => deltaMap[h] = store[2][h])
    /\ Len(store[3]) <= Len(deltaQueue)
    /\ \A i \in DOMAIN store[3] : deltaQueue[i] = store[3][i]

\* C32: when a statement of a flush has failed (map, queue or buffered mode,
\* under the table lock or not), the store holds, when the flush returns,
\* every entry it held when the flush began, and the next flush has a
\* statement for every key of those entries.
C32_FailedFlushKeepsStore ==
    /\ (exec.pc = "returned" /\ exec.err) => EntriesKept(exec.store)
    /\ (exec.pc = "running" /\ exec.prev.failed) =>
          \A h \in exec.prev.keys : StmtsNaming(h) # {}

\* A flush with entries in the store failed and the next flush has executed
\* a statement.
C32_Witness ==
    /\ exec.pc = "running"
    /\ exec.prev.failed
    /\ exec.prev.keys # {}
    /\ exec.next > 1

\* ---------------------------------------------------------------------------
\* C33
\* ---------------------------------------------------------------------------

\* The row event of the call is in the store.
CallRecorded == InStoreOf(changes, deltaMap, deltaQueue, exec.call.key, exec.call.deleted)

\* C33: keyHasChanged (HasChanged) and flush exclude each other under the
\* subscription's mutex: no call records its change while a flush is
\* running, and a change whose call began while a flush was running is in
\* the store once that flush has returned, until the next flush begins.
C33_ChangeDuringFlushSurvives ==
    exec.call.pc = "returned" =>
        /\ ~exec.call.inFlush
        /\ (exec.call.during = exec.n /\ exec.pc = "returned") => CallRecorded

\* A call that began during a flush which went on to clear a non-empty store
\* has recorded its change.
C33_Witness ==
    /\ exec.call.pc = "returned"
    /\ exec.call.during = exec.n
    /\ exec.pc = "returned"
    /\ ~exec.err
    /\ StoreKeysAt(exec.store) # {}
    /\ CallRecorded

\* ---------------------------------------------------------------------------
\* C34
\* ---------------------------------------------------------------------------

\* CutOver.Run has returned nil.
CutOverReturnedNil == cut.pc = "done" /\ ~cut.err

\* C34: CutOver.Run returns nil only if some attempt executed RENAME TABLE
\* successfully, for every configured value of MaxRetries including 0.
C34_NilOnlyAfterRename == CutOverReturnedNil => cut.renamed

\* ---------------------------------------------------------------------------
\* C35
\* ---------------------------------------------------------------------------

\* C35: the rowsAffected that RetryableTransaction returns with a nil error
\* is the number of rows affected by the statements of the committed attempt
\* only.
C35_RowsAffectedOfCommittedAttempt ==
    (txn.pc = "returned" /\ txn.ret = NilError) => txn.rowsAffected = txn.attemptRows

\* ---------------------------------------------------------------------------
\* C36
\* ---------------------------------------------------------------------------

\* C36: HashKey is injective on the key tuples of a table: two keys of equal
\* length (and the same column types) with the same hash are the same key.
C36_HashKeyInjective ==
    (hashing.pc = "hashedBoth" /\ hashing.hashed = hashing.otherHashed)
        => hashing.key = hashing.other

\* ---------------------------------------------------------------------------
\* C37
\* ---------------------------------------------------------------------------

\* C37: whenever the status reporter observes stateChecksum the checker has
\* been assigned: dumpStatus never dereferences a nil r.checker.
C37_StatusNeverDereferencesNilChecker == runner.status # "nilPanic"

\* ---------------------------------------------------------------------------
\* C38
\* ---------------------------------------------------------------------------

\* C38: once the Runner has entered stateCutOver the checkpointer writes no
\* further row to the checkpoint table, under every interleaving of the
\* checkpointer with Run.
C38_NoCheckpointFromCutOverOn == ~runner.lateCheckpoint

\* ---------------------------------------------------------------------------
\* C39
\* ---------------------------------------------------------------------------

\* The error of an attempt that is not to be retried: any error reading the
\* connection id, and an error of LOCK TABLES that canRetryError rejects.
NonRetryable(attempt) ==
    /\ attempt.err # NilError
    /\ attempt.from = "CONNECTION_ID" \/ ~canRetryError(attempt.err)

\* C39: in the retrying NewTableLock an error that is not retryable (from
\* LOCK TABLES or from reading the connection id) ends the acquisition at
\* once, no further attempt being made and that error being returned, while
\* a retryable error is followed by backoff and another attempt, up to
\* MaxRetries attempts.
C39_NonRetryableErrorEndsAcquisition ==
    /\ Len(tableLock.log) <= tableLock.maxRetries
    /\ \A j \in 1..Len(tableLock.log) :
          IF NonRetryable(tableLock.log[j])
          THEN /\ j = Len(tableLock.log)
               /\ tableLock.pc = "returned" => tableLock.ret = tableLock.log[j].err
          ELSE (tableLock.log[j].err # NilError /\ j < tableLock.maxRetries) =>
                  tableLock.log[j].backoff

\* ---------------------------------------------------------------------------
\* C40
\* ---------------------------------------------------------------------------

\* C40: every call of MetadataLock.Close returns, the dedicated connection
\* closed by then: the first call, a second call, and a call made after the
\* parent context was cancelled.
C40_EveryCloseReturns ==
    \A c \in Closers : (mdl.close[c] = "recv") ~> (mdl.close[c] = "returned" /\ mdl.dbClosed)

====
